---- MODULE Spec2Model ----
(***************************************************************************)
(* Complaint lifecycle of the student-complaint tracker: the hosted data   *)
(* store (tables, defaults, foreign keys and row-level policies of the     *)
(* migrations) and the React handlers that write to it.  Every supabase    *)
(* call is one atomic step of the store; a handler is the sequence of its  *)
(* calls, so steps of different users interleave between awaits.           *)
(***************************************************************************)
EXTENDS Integers, Sequences, FiniteSets, Bags, TLC

\* ---------------------------------------------------------------- bounds
MaxComplaints == 2
MaxRaceComplaints == 1
MaxClock == 3
MaxPad == 1
MaxSubject == 5
MaxDescription == 20
MaxResponse == 0
MaxPriorityChoices == 1
MaxSaveChoices == 2
MaxSubjectText == 3
MaxNameText == 1
MaxNotifications == 2
MaxLiveClock == 2
MaxLiveComments == 1
MaxComments == 2

\* ------------------------------------------------------ program constants
MinSubject == 5
MinDescription == 20
SubjectMaxLength == 100
DescriptionMaxLength == 2000

\* -------------------------------------------------------------- the users
Admins == {"a1", "a2"}
Students == {"s1", "s2"}
Users == Admins \cup Students

\* public.has_role(auth.uid(), 'admin')
has_role(u, role) ==
    IF role = "admin" THEN u \in Admins ELSE u \in Users

\* ------------------------------------------------------------ enumerations
complaint_status == {"submitted", "in_review", "resolved"}
complaint_priority == {"low", "medium", "high", "critical"}
PriorityOrder == <<"medium", "high", "low", "critical">>
PriorityChoices == {PriorityOrder[i] : i \in 1..MaxPriorityChoices}
SeedCategories == {"Academic", "Facilities"}

\* A nullable column holds Null or a one-element tuple <<v>>.
Null == <<>>
Some(v) == <<v>>

\* A text value is <<pad, core>>: pad surrounding whitespace characters
\* around a core of `core` characters that starts and ends with a
\* non-blank one (core = 0: the text is blank).
Text(pad, core) == <<pad, core>>
Length(t) == t[1] + t[2]
Trim(t) == <<0, t[2]>>
IsEmpty(t) == Length(t) = 0

\* ------------------------------------------------------------------ state
VARIABLES
    categories,          \* public.categories: the ids present
    complaints,          \* public.complaints: row id = index
    complaint_logs,      \* public.complaint_logs: a bag of rows
    blobs,               \* storage bucket complaint-attachments: paths
    notifications,       \* calls made to the send-notification function
    now,                 \* the clock read by Date.now() / now()
    form,                \* NewComplaint component state of each student
    adminView,           \* AdminComplaints: the fetched `complaints` list
    selectedComplaint,   \* AdminComplaints: the row object the dialog holds
    upd,                 \* handleUpdateComplaint in flight, per admin
    bulk,                \* handleBulkUpdate in flight, per admin
    del,                 \* AdminCategories.handleDelete in flight, per admin
    everResolved,        \* history: ids whose stored status was written resolved
    dirty,               \* history: admins whose open dialog shows a row that
                         \*          another writer has written since it was opened
    lastSubmit,          \* history: the arguments of the latest handleSubmit
    applied,             \* history: per complaint id, the admin writes applied
    complaint_comments,  \* public.complaint_comments, in order of creation
    studentView,         \* StudentComplaints: ids of the fetched `complaints`
    studentSelected,     \* StudentComplaints: the complaint the dialog holds
    comments,            \* the `comments` list of each user's open dialog
    send,                \* handleSendComment in flight, per user
    reply,               \* the answer to the latest request made outside the views
    report,              \* AdminReports: what the export's queries return, and the locale
    csv,                 \* AdminReports: the file last downloaded and the last toast
    notify,              \* send-notification: the call being served and its outcome
    filters,             \* admin list: searchQuery and the three filters
    selectedIds,         \* admin list: ids of the ticked rows
    click                \* history: the last press of Select All

storeVars == <<categories, complaints, complaint_logs, blobs, notifications>>
adminVars == <<adminView, selectedComplaint, upd, bulk, del>>
history == <<everResolved, dirty, lastSubmit, applied>>
commentVars == <<complaint_comments, studentView, studentSelected, comments,
                 send, reply>>
exportVars == <<report, csv>>
selectVars == <<filters, selectedIds, click>>
vars == <<categories, complaints, complaint_logs, blobs, notifications, now,
          form, adminView, selectedComplaint, upd, bulk, del,
          everResolved, dirty, lastSubmit, applied, complaint_comments,
          studentView, studentSelected, comments, send, reply, report, csv, notify,
          filters, selectedIds, click>>

\* ------------------------------------------------- NewComplaint (student)
IdleForm ==
    [pc |-> "idle", loading |-> FALSE, toast |-> "none",
     categoryId |-> "", subject |-> Text(0, 0), description |-> Text(0, 0),
     attachment |-> FALSE, complaintId |-> 0, path |-> Null]

\* The complaints table with the priority column defaulting to 'low'.
NewComplaintRowLowPriority(user_id, category_id, subject, description) ==
    [user_id |-> user_id, category_id |-> category_id,
     subject |-> subject, description |-> description,
     attachment_url |-> Null, status |-> "submitted", priority |-> "low",
     admin_response |-> Null, resolved_at |-> Null]

\* Row defaults of CREATE TABLE public.complaints and of the priority column.
NewComplaintRow(user_id, category_id, subject, description) ==
    [user_id |-> user_id, category_id |-> category_id,
     subject |-> subject, description |-> description,
     attachment_url |-> Null, status |-> "submitted", priority |-> "medium",
     admin_response |-> Null, resolved_at |-> Null]

\* handleSubmit comparing the subject against one character less.
ValidationErrorShortSubject(categoryId, subject, description) ==
    IF categoryId = "" \/ IsEmpty(Trim(subject)) \/ IsEmpty(Trim(description))
    THEN "required"
    ELSE IF Length(Trim(subject)) < MinSubject - 1 THEN "subject"
    ELSE IF Length(Trim(description)) < MinDescription THEN "description"
    ELSE ""

\* A button whose handler stays reachable while its request is in flight.
disabledNever(busy) == FALSE

\* <Button disabled={loading}>, disabled={updating}, disabled={bulkUpdating}:
\* the control that triggers a handler is disabled while the handler's
\* busy flag is set.
disabled(busy) == busy

\* The client-side checks of handleSubmit, in order; "" when all pass.
ValidationError(categoryId, subject, description) ==
    IF categoryId = "" \/ IsEmpty(Trim(subject)) \/ IsEmpty(Trim(description))
    THEN "required"
    ELSE IF Length(Trim(subject)) < MinSubject THEN "subject"
    ELSE IF Length(Trim(description)) < MinDescription THEN "description"
    ELSE ""

\* handleSubmit up to the first await: validation, setLoading(true) and the
\* dispatch of the insert.
handleSubmit(s, categoryId, subject, description, attachment) ==
    /\ ~disabled(form[s].loading)
    /\ IF ValidationError(categoryId, subject, description) # ""
       THEN form' = [form EXCEPT ![s] = [IdleForm EXCEPT !.toast = "validation"]]
       ELSE form' = [form EXCEPT ![s] =
                [IdleForm EXCEPT !.pc = "insert", !.loading = TRUE,
                                 !.categoryId = categoryId,
                                 !.subject = Trim(subject),
                                 !.description = Trim(description),
                                 !.attachment = attachment]]
    /\ lastSubmit' = [by |-> s, categoryId |-> categoryId,
                      subject |-> subject, description |-> description]
    /\ UNCHANGED <<exportVars, selectVars, notify, commentVars, storeVars, now, adminVars, everResolved, dirty,
                   applied>>

\* The insert into complaints as the store applies it: the policy
\* "Students can insert their own complaints" and the foreign key on
\* category_id decide; `fail` is a transport or server failure.
InsertComplaint(s, fail) ==
    /\ form[s].pc = "insert"
    /\ LET f == form[s]
           ok == /\ ~fail
                 /\ f.categoryId \in categories
       IN IF ok
          THEN /\ complaints' = Append(complaints,
                      NewComplaintRow(s, f.categoryId, f.subject, f.description))
               /\ IF f.attachment
                  THEN form' = [form EXCEPT ![s].pc = "upload",
                                            ![s].complaintId = Len(complaints) + 1]
                  ELSE form' = [form EXCEPT ![s] =
                                   [IdleForm EXCEPT !.toast = "success"]]
          ELSE /\ complaints' = complaints
               /\ form' = [form EXCEPT ![s] = [IdleForm EXCEPT !.toast = "error"]]
    /\ UNCHANGED <<exportVars, selectVars, notify, commentVars, categories, complaint_logs, blobs, notifications, now,
                   adminVars, history>>

\* An update of public.complaints: a column is written iff its entry is
\* non-Null (admin_response is written iff setResponse).  The policy
\* "Admins can update any complaint" is the only UPDATE policy: for any
\* other caller no row qualifies and the call succeeds without effect.
NoUpdates ==
    [status |-> Null, priority |-> Null, setResponse |-> FALSE,
     admin_response |-> Null, resolved_at |-> Null, attachment_url |-> Null]

\* An update that the store applies only when the status does not move
\* back in the order submitted, in_review, resolved.
ApplyUpdatesForwardOnly(row, u) ==
    LET rank == [st \in complaint_status |->
                    IF st = "submitted" THEN 1
                    ELSE IF st = "in_review" THEN 2 ELSE 3]
    IN IF u.status # Null /\ rank[u.status[1]] < rank[row.status]
       THEN row
       ELSE [row EXCEPT
               !.status = IF u.status = Null THEN @ ELSE u.status[1],
               !.priority = IF u.priority = Null THEN @ ELSE u.priority[1],
               !.admin_response = IF u.setResponse THEN u.admin_response ELSE @,
               !.resolved_at = IF u.resolved_at = Null THEN @ ELSE u.resolved_at,
               !.attachment_url = IF u.attachment_url = Null THEN @
                                  ELSE u.attachment_url]

ApplyUpdates(row, u) ==
    [row EXCEPT
       !.status = IF u.status = Null THEN @ ELSE u.status[1],
       !.priority = IF u.priority = Null THEN @ ELSE u.priority[1],
       !.admin_response = IF u.setResponse THEN u.admin_response ELSE @,
       !.resolved_at = IF u.resolved_at = Null THEN @ ELSE u.resolved_at,
       !.attachment_url = IF u.attachment_url = Null THEN @ ELSE u.attachment_url]

\* "Admins can update any complaint" with USING (true).
ComplaintsUpdatePolicyAnyone(caller) == TRUE

\* "Admins can update any complaint"
ComplaintsUpdatePolicy(caller) == has_role(caller, "admin")

UpdateComplaints(caller, ids, u) ==
    [i \in 1..Len(complaints) |->
        IF i \in ids /\ ComplaintsUpdatePolicy(caller)
        THEN ApplyUpdates(complaints[i], u)
        ELSE complaints[i]]

\* "Students can upload their own attachments": the first folder of the
\* object name is the caller's id.
StorageInsertPolicy(caller, name) == name[1] = caller

\* uploadAttachment returning null instead of throwing when the upload
\* fails: handleSubmit goes on to its success toast.
uploadAttachmentSwallowingError(s, fail) ==
    /\ form[s].pc = "upload"
    /\ LET fileName == <<s, form[s].complaintId, now>>
       IN IF fail \/ ~StorageInsertPolicy(s, fileName)
          THEN /\ blobs' = blobs
               /\ form' = [form EXCEPT ![s] =
                     [IdleForm EXCEPT !.toast = "success",
                                      !.complaintId = form[s].complaintId]]
          ELSE /\ blobs' = blobs \cup {fileName}
               /\ form' = [form EXCEPT ![s].pc = "attach",
                                       ![s].path = Some(fileName)]
    /\ UNCHANGED <<exportVars, selectVars, notify, commentVars, categories, complaints, complaint_logs, notifications, now,
                   adminVars, history>>

\* uploadAttachment: the path is user.id/complaintId/Date.now(); the
\* storage policy admits a path whose first folder is the caller's id.
\* A failed upload throws into handleSubmit's catch.  complaintId, the
\* row returned by the insert, stays readable after the handler ends.
uploadAttachment(s, fail) ==
    /\ form[s].pc = "upload"
    /\ LET fileName == <<s, form[s].complaintId, now>>
       IN IF fail \/ ~StorageInsertPolicy(s, fileName)
          THEN /\ blobs' = blobs
               /\ form' = [form EXCEPT ![s] =
                     [IdleForm EXCEPT !.toast = "error",
                                      !.complaintId = form[s].complaintId]]
          ELSE /\ blobs' = blobs \cup {fileName}
               /\ form' = [form EXCEPT ![s].pc = "attach",
                                       ![s].path = Some(fileName)]
    /\ UNCHANGED <<exportVars, selectVars, notify, commentVars, categories, complaints, complaint_logs, notifications, now,
                   adminVars, history>>

\* The update that writes attachment_url back; its result is not inspected,
\* then toast.success and, in finally, setLoading(false).
AttachUpdate(s, fail) ==
    /\ form[s].pc = "attach"
    /\ complaints' = IF fail THEN complaints
                     ELSE UpdateComplaints(s, {form[s].complaintId},
                              [NoUpdates EXCEPT !.attachment_url = form[s].path])
    /\ form' = [form EXCEPT ![s] =
          [IdleForm EXCEPT !.toast = "success",
                           !.complaintId = form[s].complaintId]]
    /\ UNCHANGED <<exportVars, selectVars, notify, commentVars, categories, complaint_logs, blobs, notifications, now,
                   adminVars, history>>

\* ------------------------------------------- row-level policies of reads
\* The caller owns complaint i.
Owns(caller, i) == i \in 1..Len(complaints) /\ complaints[i].user_id = caller

\* "Students can view their own complaints" or "Admins can view all
\* complaints"
ComplaintsSelectPolicy(caller, row) ==
    row.user_id = caller \/ has_role(caller, "admin")

\* "Students can view logs for their complaints" with no owner test.
LogsSelectPolicyAnyComplaint(caller, row) ==
    \/ row.complaint_id \in 1..Len(complaints)
    \/ has_role(caller, "admin")

\* "Students can view logs for their complaints" or "Admins can view all
\* logs"
LogsSelectPolicy(caller, row) ==
    \/ Owns(caller, row.complaint_id)
    \/ has_role(caller, "admin")

\* "Students can view comments on their complaints" or "Admins can view
\* all comments"
CommentsSelectPolicy(caller, row) ==
    \/ Owns(caller, row.complaint_id)
    \/ has_role(caller, "admin")

\* "Students can add comments to their complaints" without the is_admin
\* test.
CommentsInsertPolicyAnyFlag(caller, row) ==
    \/ Owns(caller, row.complaint_id)
    \/ has_role(caller, "admin")

\* "Students can add comments to their complaints" or "Admins can insert
\* comments"
CommentsInsertPolicy(caller, row) ==
    \/ Owns(caller, row.complaint_id) /\ row.is_admin = FALSE
    \/ has_role(caller, "admin")

\* Row-level security is enabled on complaint_comments and no policy is
\* defined for UPDATE or DELETE: no row qualifies for any caller.
CommentsWritePolicy(caller, row) == FALSE

\* The rows a SELECT of the caller returns: ids, indexes and log rows.
SelectComplaints(caller) ==
    {i \in 1..Len(complaints) : ComplaintsSelectPolicy(caller, complaints[i])}

SelectComments(caller) ==
    {k \in 1..Len(complaint_comments) :
        CommentsSelectPolicy(caller, complaint_comments[k])}

SelectLogs(caller) ==
    {r \in BagToSet(complaint_logs) : LogsSelectPolicy(caller, r)}

\* select('*').eq('complaint_id', complaint.id) on complaint_comments
CommentsOf(caller, i) ==
    {k \in SelectComments(caller) : complaint_comments[k].complaint_id = i}

\* ------------------------------------------------ AdminComplaints (admin)
\* storedBefore, storedAfter and clean are history: the stored status the
\* update replaced, the stored status it left, and whether no other writer
\* wrote the row since the dialog was opened.
IdleUpdate ==
    [pc |-> "idle", updating |-> FALSE, id |-> 0,
     old_status |-> "", old_priority |-> "", newStatus |-> "",
     newPriority |-> "", notes |-> Null, updates |-> NoUpdates,
     storedBefore |-> "", storedAfter |-> "", clean |-> FALSE]

\* The admins other than `a` whose dialog is open on one of `ids`.
Overtaken(a, ids) ==
    {b \in Admins \ {a} :
        selectedComplaint[b] # Null /\ selectedComplaint[b][1].id \in ids}

IdleBulk ==
    [pc |-> "idle", bulkUpdating |-> FALSE, ids |-> {},
     bulkStatus |-> "", bulkPriority |-> "", updates |-> NoUpdates]

\* The count of applied writes after `a` has updated the rows `ids`.
Written(a, ids) ==
    [i \in DOMAIN applied |->
        IF i \in ids /\ ComplaintsUpdatePolicy(a)
        THEN applied[i] + 1 ELSE applied[i]]

\* The admin list as mounted: no search text, every filter on 'all', no
\* row ticked.
NoFilters ==
    [searchQuery |-> "", statusFilter |-> "all", categoryFilter |-> "all",
     priorityFilter |-> "all"]

NoClick == [kind |-> "", selectedIds |-> {}, filteredComplaints |-> {}]

\* filterComplaints: the ids of the fetched rows that pass the search text
\* and the three filters.  The effect recomputes the list whenever the
\* fetched rows or a filter change, so it is a function of the two.  A
\* search text is a student's name, matched against the author's profile.
filteredComplaints(a) ==
    LET f == filters[a]
        c(i) == adminView[a][i]
    IN {i \in 1..Len(adminView[a]) :
          /\ f.searchQuery = "" \/ c(i).user_id = f.searchQuery
          /\ f.statusFilter = "all" \/ c(i).status = f.statusFilter
          /\ f.categoryFilter = "all" \/ c(i).category_id = f.categoryFilter
          /\ f.priorityFilter = "all" \/ c(i).priority = f.priorityFilter}

\* The search box and the three filter selects, one change at a time: none
\* of them touches selectedIds.
setFilters(a, f) ==
    /\ selectedComplaint[a] = Null
    /\ Cardinality({k \in DOMAIN f : f[k] # filters[a][k]}) = 1
    /\ filters' = [filters EXCEPT ![a] = f]
    /\ click' = [click EXCEPT ![a] = NoClick]
    /\ UNCHANGED <<exportVars, selectedIds, notify, commentVars, storeVars, now,
                   form, adminVars, history>>

\* toggleSelection, from the checkbox of a displayed row.
toggleSelection(a, id) ==
    /\ selectedComplaint[a] = Null
    /\ id \in filteredComplaints(a)
    /\ selectedIds' = [selectedIds EXCEPT ![a] =
                          IF id \in @ THEN @ \ {id} ELSE @ \cup {id}]
    /\ click' = [click EXCEPT ![a] = NoClick]
    /\ UNCHANGED <<exportVars, filters, notify, commentVars, storeVars, now,
                   form, adminVars, history>>

\* toggleSelectAll, from the Select All button shown while the displayed
\* list is not empty: it compares the two sizes.
toggleSelectAll(a) ==
    /\ selectedComplaint[a] = Null
    /\ filteredComplaints(a) # {}
    /\ selectedIds' = [selectedIds EXCEPT ![a] =
                          IF Cardinality(@) = Cardinality(filteredComplaints(a))
                          THEN {} ELSE filteredComplaints(a)]
    /\ click' = [click EXCEPT ![a] =
                    [kind |-> "all", selectedIds |-> selectedIds[a],
                     filteredComplaints |-> filteredComplaints(a)]]
    /\ UNCHANGED <<exportVars, filters, notify, commentVars, storeVars, now,
                   form, adminVars, history>>

\* fetchComplaints: the admin's SELECT policy returns every row.
fetchComplaints(a) ==
    /\ adminView' = [adminView EXCEPT ![a] =
                        IF has_role(a, "admin") THEN complaints ELSE <<>>]
    /\ UNCHANGED <<exportVars, selectVars, notify, commentVars, storeVars, now, form, selectedComplaint, upd, bulk, del,
                   history>>

\* openComplaint: the dialog keeps the row object of the fetched list and
\* loads the comments of the complaint.
openComplaint(a, i) ==
    /\ selectedComplaint[a] = Null
    /\ i \in 1..Len(adminView[a])
    /\ selectedComplaint' = [selectedComplaint EXCEPT ![a] =
           Some([id |-> i, status |-> adminView[a][i].status,
                 priority |-> adminView[a][i].priority,
                 admin_response |-> adminView[a][i].admin_response])]
    /\ comments' = [comments EXCEPT ![a] = CommentsOf(a, i)]
    /\ dirty' = dirty \ {a}
    /\ UNCHANGED <<exportVars, selectVars, notify, complaint_comments, studentView, studentSelected, send,
                   reply, storeVars, now, form, adminView, upd, bulk, del,
                   everResolved, lastSubmit, applied>>

\* Cancel / onOpenChange of the dialog.
closeComplaint(a) ==
    /\ selectedComplaint[a] # Null
    /\ ~upd[a].updating
    /\ selectedComplaint' = [selectedComplaint EXCEPT ![a] = Null]
    /\ UNCHANGED <<exportVars, selectVars, notify, commentVars, storeVars, now, form, adminView, upd, bulk, del, history>>

\* adminResponse.trim() || null
TrimOrNull(t) == IF IsEmpty(Trim(t)) THEN Null ELSE Some(Trim(t))

\* handleUpdateComplaint sending only the columns the admin has changed in
\* the dialog.
SingleUpdatesChangedOnly(sel, newStatus, newPriority, adminResponse, t) ==
    [NoUpdates EXCEPT
       !.status = IF newStatus # sel.status THEN Some(newStatus) ELSE Null,
       !.priority = IF newPriority # sel.priority THEN Some(newPriority) ELSE Null,
       !.setResponse = TrimOrNull(adminResponse) # sel.admin_response,
       !.admin_response = TrimOrNull(adminResponse),
       !.resolved_at = IF newStatus = "resolved" /\ sel.status # "resolved"
                       THEN Some(t) ELSE Null]

\* handleUpdateComplaint stamping resolved_at on every change of status.
SingleUpdatesRestamp(sel, newStatus, newPriority, adminResponse, t) ==
    [NoUpdates EXCEPT
       !.status = Some(newStatus),
       !.priority = Some(newPriority),
       !.setResponse = TRUE,
       !.admin_response = TrimOrNull(adminResponse),
       !.resolved_at = IF newStatus # sel.status THEN Some(t) ELSE Null]

\* The `updates` object of handleUpdateComplaint; resolved_at is decided
\* against the status of the dialog's row object.
SingleUpdates(sel, newStatus, newPriority, adminResponse, t) ==
    [NoUpdates EXCEPT
       !.status = Some(newStatus),
       !.priority = Some(newPriority),
       !.setResponse = TRUE,
       !.admin_response = TrimOrNull(adminResponse),
       !.resolved_at = IF newStatus = "resolved" /\ sel.status # "resolved"
                       THEN Some(t) ELSE Null]

\* handleUpdateComplaint up to its first await.
handleUpdateComplaint(a, newStatus, newPriority, adminResponse) ==
    /\ selectedComplaint[a] # Null
    /\ ~disabled(upd[a].updating)
    /\ LET sel == selectedComplaint[a][1]
       IN upd' = [upd EXCEPT ![a] =
             [IdleUpdate EXCEPT
                !.pc = "update", !.updating = TRUE, !.id = sel.id,
                !.old_status = sel.status, !.old_priority = sel.priority,
                !.newStatus = newStatus, !.newPriority = newPriority,
                !.notes = TrimOrNull(adminResponse),
                !.updates = SingleUpdates(sel, newStatus, newPriority,
                                          adminResponse, now)]]
    /\ now' = now + 1
    /\ UNCHANGED <<exportVars, selectVars, notify, commentVars, storeVars, form, adminView, selectedComplaint, bulk, del,
                   history>>

\* The update under a version check: it is rejected when the stored row
\* no longer has the status and priority of the dialog's row object.
ApplyUpdateIfUnchanged(a, fail) ==
    /\ upd[a].pc = "update"
    /\ IF fail \/ complaints[upd[a].id].status # upd[a].old_status
            \/ complaints[upd[a].id].priority # upd[a].old_priority
       THEN /\ upd' = [upd EXCEPT ![a] = IdleUpdate]
            /\ UNCHANGED <<complaints, everResolved, dirty, applied>>
       ELSE /\ complaints' = UpdateComplaints(a, {upd[a].id}, upd[a].updates)
            /\ everResolved' = everResolved \cup
                   {i \in {upd[a].id} : complaints'[i].status = "resolved"}
            /\ dirty' = dirty \cup Overtaken(a, {upd[a].id})
            /\ applied' = Written(a, {upd[a].id})
            /\ upd' = [upd EXCEPT ![a].pc = "log",
                                  ![a].storedBefore = complaints[upd[a].id].status,
                                  ![a].storedAfter = complaints'[upd[a].id].status,
                                  ![a].clean = a \notin dirty]
    /\ UNCHANGED <<exportVars, selectVars, notify, commentVars, categories, complaint_logs, blobs, notifications, now, form,
                   adminView, selectedComplaint, bulk, del, lastSubmit>>

\* The update of the row as the store applies it; an error is thrown into
\* the catch (toast.error) and finally clears `updating`.
ApplyUpdate(a, fail) ==
    /\ upd[a].pc = "update"
    /\ IF fail
       THEN /\ upd' = [upd EXCEPT ![a] = IdleUpdate]
            /\ UNCHANGED <<complaints, everResolved, dirty, applied>>
       ELSE /\ complaints' = UpdateComplaints(a, {upd[a].id}, upd[a].updates)
            /\ everResolved' = everResolved \cup
                   {i \in {upd[a].id} : complaints'[i].status = "resolved"}
            /\ dirty' = dirty \cup Overtaken(a, {upd[a].id})
            /\ applied' = Written(a, {upd[a].id})
            /\ upd' = [upd EXCEPT ![a].pc = "log",
                                  ![a].storedBefore = complaints[upd[a].id].status,
                                  ![a].storedAfter = complaints'[upd[a].id].status,
                                  ![a].clean = a \notin dirty]
    /\ UNCHANGED <<exportVars, selectVars, notify, commentVars, categories, complaint_logs, blobs, notifications, now, form,
                   adminView, selectedComplaint, bulk, del, lastSubmit>>

\* sendNotification of lib/notifications.ts: one invocation of the
\* send-notification function.  No handler of the repository calls it.
sendNotification(type, complaintId) ==
    notifications' = Append(notifications,
                            [type |-> type, complaintId |-> complaintId])

\* "Admins can insert logs" WITH CHECK (true).
LogInsertPolicyAnyone(caller) == TRUE

\* "Admins can insert logs"
LogInsertPolicy(caller) == has_role(caller, "admin")

\* The log insert (its result is not inspected), then toast.success,
\* setSelectedComplaint(null), fetchComplaints() and, in finally,
\* setUpdating(false).
ApplyLog(a, fail) ==
    /\ upd[a].pc = "log"
    /\ LET u == upd[a]
           row == [complaint_id |-> u.id,
                   action |-> <<"single", u.old_status, u.newStatus,
                                u.old_priority, u.newPriority>>,
                   old_status |-> Some(u.old_status),
                   new_status |-> Some(u.newStatus),
                   notes |-> u.notes,
                   performed_by |-> a]
           ok == ~fail /\ LogInsertPolicy(a)
       IN /\ complaint_logs' = IF ok THEN complaint_logs (+) SetToBag({row})
                               ELSE complaint_logs
          /\ upd' = [upd EXCEPT ![a] = IdleUpdate]
    /\ selectedComplaint' = [selectedComplaint EXCEPT ![a] = Null]
    /\ adminView' = [adminView EXCEPT ![a] = complaints]
    /\ UNCHANGED <<exportVars, selectVars, notify, commentVars, categories, complaints, blobs, notifications, now, form,
                   bulk, del, history>>

\* handleBulkUpdate without the resolved_at line.
BulkUpdatesNoStamp(bulkStatus, bulkPriority, t) ==
    [NoUpdates EXCEPT
       !.status = IF bulkStatus # "" THEN Some(bulkStatus) ELSE Null,
       !.priority = IF bulkPriority # "" THEN Some(bulkPriority) ELSE Null]

\* The `updates` object of handleBulkUpdate.
BulkUpdates(bulkStatus, bulkPriority, t) ==
    [NoUpdates EXCEPT
       !.status = IF bulkStatus # "" THEN Some(bulkStatus) ELSE Null,
       !.priority = IF bulkPriority # "" THEN Some(bulkPriority) ELSE Null,
       !.resolved_at = IF bulkStatus = "resolved" THEN Some(t) ELSE Null]

\* handleBulkUpdate up to its first await.  ids (selectedIds) holds ids of rows
\* of the fetched list; the bulk card is reachable while no dialog is open.
handleBulkUpdate(a, ids, bulkStatus, bulkPriority) ==
    /\ selectedComplaint[a] = Null
    /\ ~disabled(bulk[a].bulkUpdating)
    /\ ids # {}
    /\ ids \subseteq 1..Len(adminView[a])
    /\ IF bulkStatus = "" /\ bulkPriority = ""
       THEN UNCHANGED <<bulk, now>>
       ELSE /\ bulk' = [bulk EXCEPT ![a] =
                  [IdleBulk EXCEPT
                     !.pc = "update", !.bulkUpdating = TRUE,
                     !.ids = ids, !.bulkStatus = bulkStatus,
                     !.bulkPriority = bulkPriority,
                     !.updates = BulkUpdates(bulkStatus, bulkPriority, now)]]
            /\ now' = now + 1
    /\ UNCHANGED <<exportVars, selectVars, notify, commentVars, storeVars, form, adminView, selectedComplaint, upd, del,
                   history>>

\* The multi-row update as the store applies it.
ApplyBulkUpdate(a, fail) ==
    /\ bulk[a].pc = "update"
    /\ IF fail
       THEN /\ bulk' = [bulk EXCEPT ![a] = IdleBulk]
            /\ UNCHANGED <<complaints, everResolved, dirty, applied>>
       ELSE /\ complaints' = UpdateComplaints(a, bulk[a].ids,
                                              bulk[a].updates)
            /\ everResolved' = everResolved \cup
                   {i \in bulk[a].ids : complaints'[i].status = "resolved"}
            /\ dirty' = dirty \cup Overtaken(a, bulk[a].ids)
            /\ applied' = Written(a, bulk[a].ids)
            /\ bulk' = [bulk EXCEPT ![a].pc = "log"]
    /\ UNCHANGED <<exportVars, selectVars, notify, commentVars, categories, complaint_logs, blobs, notifications, now, form,
                   adminView, selectedComplaint, upd, del, lastSubmit>>

\* handleBulkUpdate logging one row for the whole batch.
BulkLogEntriesOneRow(a, ids, bulkStatus, bulkPriority) ==
    {[complaint_id |-> id,
      action |-> <<"bulk", bulkStatus, bulkPriority>>,
      old_status |-> Null,
      new_status |-> IF bulkStatus # "" THEN Some(bulkStatus) ELSE Null,
      notes |-> Null,
      performed_by |-> a] : id \in {i \in ids : \A j \in ids : i <= j}}

\* logEntries of handleBulkUpdate: one row per selected id.
BulkLogEntries(a, ids, bulkStatus, bulkPriority) ==
    {[complaint_id |-> id,
      action |-> <<"bulk", bulkStatus, bulkPriority>>,
      old_status |-> Null,
      new_status |-> IF bulkStatus # "" THEN Some(bulkStatus) ELSE Null,
      notes |-> Null,
      performed_by |-> a] : id \in ids}

\* The insert of the log rows (result not inspected), then toast.success,
\* the selection and the bulk fields are cleared, fetchComplaints() and,
\* in finally, setBulkUpdating(false).
ApplyBulkLog(a, fail) ==
    /\ bulk[a].pc = "log"
    /\ LET b == bulk[a]
           ok == ~fail /\ LogInsertPolicy(a)
       IN /\ complaint_logs' =
                IF ok THEN complaint_logs (+) SetToBag(
                           BulkLogEntries(a, b.ids, b.bulkStatus, b.bulkPriority))
                ELSE complaint_logs
          /\ bulk' = [bulk EXCEPT ![a] = IdleBulk]
    /\ adminView' = [adminView EXCEPT ![a] = complaints]
    /\ selectedIds' = [selectedIds EXCEPT ![a] = {}]
    /\ click' = [click EXCEPT ![a] = NoClick]
    /\ UNCHANGED <<exportVars, filters, notify, commentVars, categories, complaints, blobs, notifications, now, form,
                   selectedComplaint, upd, del, history>>

\* ------------------------------------------------ AdminCategories (admin)
\* failed is history: a call of the latest run was answered with an error
\* of the transport or the server.
IdleDelete ==
    [pc |-> "idle", saving |-> FALSE, toast |-> "none", category |-> "",
     count |-> Null, failed |-> FALSE]

\* handleDelete up to its first await; categoryToDelete is a row of the
\* fetched category list.
\* The id of a category created by handleSave.
CreatedCategory == "Created"

\* handleSave up to its first await: a name or description refused by
\* categorySchema.parse is thrown into the catch before setSaving(true);
\* editingCategory is "" for a new category.
handleSave(a, valid, editingCategory) ==
    /\ ~del[a].saving
    /\ del' = [del EXCEPT ![a] =
                  IF valid
                  THEN [IdleDelete EXCEPT !.pc = "save", !.saving = TRUE,
                                          !.category = editingCategory]
                  ELSE [IdleDelete EXCEPT !.toast = "error"]]
    /\ UNCHANGED <<exportVars, selectVars, notify, commentVars, storeVars, now, form, adminView, selectedComplaint, upd,
                   bulk, history>>

\* The update or the insert of handleSave, its toast, and in finally
\* setSaving(false).
ApplySave(a, fail) ==
    /\ del[a].pc = "save"
    /\ categories' = IF ~fail /\ del[a].category = "" /\ has_role(a, "admin")
                     THEN categories \cup {CreatedCategory} ELSE categories
    /\ del' = [del EXCEPT ![a] =
                  [IdleDelete EXCEPT !.toast = IF fail THEN "error" ELSE "saved"]]
    /\ UNCHANGED <<exportVars, selectVars, notify, commentVars, complaints, complaint_logs, blobs, notifications, now, form,
                   adminView, selectedComplaint, upd, bulk, history>>

handleDelete(a, categoryToDelete) ==
    /\ ~del[a].saving
    /\ del' = [del EXCEPT ![a] =
                  [IdleDelete EXCEPT !.pc = "count", !.saving = TRUE,
                                     !.category = categoryToDelete]]
    /\ UNCHANGED <<exportVars, selectVars, notify, commentVars, storeVars, now, form, adminView, selectedComplaint, upd,
                   bulk, history>>

\* The head-count query; on failure `count` is null.
CountComplaints(a, c, fail) ==
    IF fail THEN Null
    ELSE Some(Cardinality({i \in 1..Len(complaints) :
                 has_role(a, "admin") /\ complaints[i].category_id = c}))

\* handleDelete letting a single referencing complaint through.
InUseMoreThanOne(count) == count # Null /\ count[1] > 1

\* if (count && count > 0)
InUse(count) == count # Null /\ count[1] > 0

\* handleDelete returning on a count above zero without a finally block.
DeleteCountNoFinally(a, fail) ==
    /\ del[a].pc = "count"
    /\ LET count == CountComplaints(a, del[a].category, fail)
       IN IF InUse(count)
          THEN del' = [del EXCEPT ![a] =
                   [IdleDelete EXCEPT !.toast = "conflict", !.saving = TRUE,
                                      !.category = del[a].category,
                                      !.count = count, !.failed = fail]]
          ELSE del' = [del EXCEPT ![a].pc = "delete", ![a].count = count,
                                  ![a].failed = fail]
    /\ UNCHANGED <<exportVars, selectVars, notify, commentVars, storeVars, now, form, adminView, selectedComplaint, upd,
                   bulk, history>>

DeleteCount(a, fail) ==
    /\ del[a].pc = "count"
    /\ LET count == CountComplaints(a, del[a].category, fail)
       IN IF InUse(count)
          THEN del' = [del EXCEPT ![a] =
                   [IdleDelete EXCEPT !.toast = "conflict",
                                      !.category = del[a].category,
                                      !.count = count, !.failed = fail]]
          ELSE del' = [del EXCEPT ![a].pc = "delete", ![a].count = count,
                                  ![a].failed = fail]
    /\ UNCHANGED <<exportVars, selectVars, notify, commentVars, storeVars, now, form, adminView, selectedComplaint, upd,
                   bulk, history>>

\* A categories table whose rows no foreign key protects.
CategoryReferencedNever(c) == FALSE

\* category_id UUID REFERENCES public.categories(id): a complaint row
\* references category c.
CategoryReferenced(c) ==
    \E i \in 1..Len(complaints) : complaints[i].category_id = c

\* The delete as the store applies it: the foreign key of
\* complaints.category_id rejects it while a complaint references the row.
DeleteCategory(a, fail) ==
    /\ del[a].pc = "delete"
    /\ LET c == del[a].category
           referenced == CategoryReferenced(c)
       IN IF fail \/ referenced
          THEN /\ categories' = categories
               /\ del' = [del EXCEPT ![a] =
                     [IdleDelete EXCEPT !.toast = "error", !.category = c,
                                        !.failed = del[a].failed \/ fail]]
          ELSE /\ categories' = IF has_role(a, "admin")
                                THEN categories \ {c} ELSE categories
               /\ del' = [del EXCEPT ![a] =
                     [IdleDelete EXCEPT !.toast = "deleted", !.category = c,
                                        !.failed = del[a].failed]]
    /\ UNCHANGED <<exportVars, selectVars, notify, commentVars, complaints, complaint_logs, blobs, notifications, now, form,
                   adminView, selectedComplaint, upd, bulk, history>>

\* ---------------------------------------- StudentComplaints (student)
\* fetchComplaints of StudentComplaints: .eq('user_id', user.id) under the
\* SELECT policies.
studentFetchComplaints(s) ==
    /\ studentView' = [studentView EXCEPT ![s] =
           {i \in SelectComplaints(s) : complaints[i].user_id = s}]
    /\ UNCHANGED <<exportVars, selectVars, notify, storeVars, now, form, adminVars, history,
                   complaint_comments, studentSelected, comments, send, reply>>

\* openComplaint of StudentComplaints: the dialog and its comments.
studentOpenComplaint(s, i) ==
    /\ studentSelected[s] = Null
    /\ i \in studentView[s]
    /\ studentSelected' = [studentSelected EXCEPT ![s] = Some(i)]
    /\ comments' = [comments EXCEPT ![s] = CommentsOf(s, i)]
    /\ UNCHANGED <<exportVars, selectVars, notify, storeVars, now, form, adminVars, history,
                   complaint_comments, studentView, send, reply>>

\* onOpenChange of the student's dialog.
studentCloseComplaint(s) ==
    /\ studentSelected[s] # Null
    /\ studentSelected' = [studentSelected EXCEPT ![s] = Null]
    /\ UNCHANGED <<exportVars, selectVars, notify, storeVars, now, form, adminVars, history,
                   complaint_comments, studentView, comments, send, reply>>

\* ------------------------------------------------------------- comments
IdleSend ==
    [pc |-> "idle", sendingComment |-> FALSE, complaint_id |-> 0,
     content |-> Text(0, 0), is_admin |-> FALSE, pending |-> 0]

\* handleSendComment of AdminComplaints up to its await.  It does not look
\* at sendingComment; pending counts the inserts of this dialog and text
\* that are in flight.
handleSendComment(a, newComment) ==
    /\ IF selectedComplaint[a] = Null \/ IsEmpty(Trim(newComment))
       THEN UNCHANGED send
       ELSE send' = [send EXCEPT ![a] =
                [pc |-> "insert", sendingComment |-> TRUE,
                 complaint_id |-> selectedComplaint[a][1].id,
                 content |-> Trim(newComment), is_admin |-> TRUE,
                 pending |-> send[a].pending + 1]]
    /\ UNCHANGED <<exportVars, selectVars, notify, storeVars, now, form, adminVars, history,
                   complaint_comments, studentView, studentSelected,
                   comments, reply>>

\* handleSendComment of StudentComplaints up to its await.
studentHandleSendComment(s, newComment) ==
    /\ IF studentSelected[s] = Null \/ IsEmpty(Trim(newComment))
       THEN UNCHANGED send
       ELSE send' = [send EXCEPT ![s] =
                [pc |-> "insert", sendingComment |-> TRUE,
                 complaint_id |-> studentSelected[s][1],
                 content |-> Trim(newComment), is_admin |-> FALSE,
                 pending |-> send[s].pending + 1]]
    /\ UNCHANGED <<exportVars, selectVars, notify, storeVars, now, form, adminVars, history,
                   complaint_comments, studentView, studentSelected,
                   comments, reply>>

\* An insert into complaint_comments as the store decides it: the foreign
\* key on complaint_id and the INSERT policies.
CommentInsertAllowed(caller, row) ==
    /\ row.complaint_id \in 1..Len(complaints)
    /\ CommentsInsertPolicy(caller, row)

\* A comment row; `by` is history: the caller whose request inserted it.
CommentRow(caller, complaint_id, user_id, content, is_admin) ==
    [complaint_id |-> complaint_id, user_id |-> user_id,
     content |-> content, is_admin |-> is_admin, by |-> caller]

\* The insert of the comment, then setComments([...comments, data]) or the
\* error toast, and setSendingComment(false) in finally.  One request in
\* flight is answered at a time.
ApplyComment(u, fail) ==
    /\ send[u].pc = "insert"
    /\ LET row == CommentRow(u, send[u].complaint_id, u, send[u].content,
                             send[u].is_admin)
       IN IF ~fail /\ CommentInsertAllowed(u, row)
          THEN /\ complaint_comments' = Append(complaint_comments, row)
               /\ comments' = [comments EXCEPT ![u] =
                                  @ \cup {Len(complaint_comments) + 1}]
          ELSE UNCHANGED <<complaint_comments, comments>>
    /\ send' = [send EXCEPT ![u] =
                   IF @.pending > 1
                   THEN [@ EXCEPT !.sendingComment = FALSE, !.pending = @ - 1]
                   ELSE IdleSend]
    /\ UNCHANGED <<exportVars, selectVars, notify, storeVars, now, form, adminVars, history, studentView,
                   studentSelected, reply>>

\* ------------------------------------- requests made outside the views
\* Any signed-in user can send any request to the store with the public
\* key; the row-level policies alone decide it.  reply records the rows
\* the latest such request affected or returned.
NoReply == [by |-> "", op |-> "", ids |-> {}, logs |-> {}]

\* update complaints set status, priority, admin_response, resolved_at
UpdateRequest(caller, i, status, priority) ==
    /\ i \in 1..Len(complaints)
    /\ LET u == [NoUpdates EXCEPT
                    !.status = Some(status), !.priority = Some(priority),
                    !.setResponse = TRUE, !.admin_response = Some(Text(0, 1)),
                    !.resolved_at = Some(now)]
           hit == IF ComplaintsUpdatePolicy(caller) THEN {i} ELSE {}
       IN /\ complaints' = UpdateComplaints(caller, {i}, u)
          /\ everResolved' = everResolved \cup
                 {j \in hit : complaints'[j].status = "resolved"}
          /\ dirty' = dirty \cup (IF hit = {} THEN {} ELSE Overtaken(caller, hit))
          /\ applied' = Written(caller, {i})
          /\ reply' = [NoReply EXCEPT !.by = caller, !.op = "update complaints",
                                      !.ids = hit]
    /\ UNCHANGED <<exportVars, selectVars, notify, categories, complaint_logs, blobs, notifications, now, form,
                   adminVars, lastSubmit, complaint_comments, studentView,
                   studentSelected, comments, send>>

\* insert into complaint_comments with any author and any is_admin
InsertCommentRequest(caller, i, user_id, is_admin) ==
    /\ LET row == CommentRow(caller, i, user_id, Text(0, 1), is_admin)
       IN IF CommentInsertAllowed(caller, row)
          THEN /\ complaint_comments' = Append(complaint_comments, row)
               /\ reply' = [NoReply EXCEPT !.by = caller,
                               !.op = "insert complaint_comments",
                               !.ids = {Len(complaint_comments) + 1}]
          ELSE /\ complaint_comments' = complaint_comments
               /\ reply' = [NoReply EXCEPT !.by = caller,
                               !.op = "insert complaint_comments"]
    /\ UNCHANGED <<exportVars, selectVars, notify, storeVars, now, form, adminVars, history, studentView,
                   studentSelected, comments, send>>

\* update complaint_comments set content = '' where id = k
UpdateCommentRequest(caller, k) ==
    /\ k \in 1..Len(complaint_comments)
    /\ LET hit == {j \in {k} : CommentsWritePolicy(caller, complaint_comments[j])}
       IN /\ complaint_comments' =
                [j \in 1..Len(complaint_comments) |->
                    IF j \in hit
                    THEN [complaint_comments[j] EXCEPT !.content = Text(0, 0)]
                    ELSE complaint_comments[j]]
          /\ reply' = [NoReply EXCEPT !.by = caller,
                          !.op = "update complaint_comments", !.ids = hit]
    /\ UNCHANGED <<exportVars, selectVars, notify, storeVars, now, form, adminVars, history, studentView,
                   studentSelected, comments, send>>

\* delete from complaint_comments where id = k
DeleteCommentRequest(caller, k) ==
    /\ k \in 1..Len(complaint_comments)
    /\ LET hit == {j \in {k} : CommentsWritePolicy(caller, complaint_comments[j])}
       IN /\ complaint_comments' =
                IF hit = {} THEN complaint_comments
                ELSE SubSeq(complaint_comments, 1, k - 1)
                     \o SubSeq(complaint_comments, k + 1, Len(complaint_comments))
          /\ reply' = [NoReply EXCEPT !.by = caller,
                          !.op = "delete complaint_comments", !.ids = hit]
    /\ UNCHANGED <<exportVars, selectVars, notify, storeVars, now, form, adminVars, history, studentView,
                   studentSelected, comments, send>>

\* insert into complaint_logs
InsertLogRequest(caller, i) ==
    /\ i \in 1..Len(complaints)
    /\ LET row == [complaint_id |-> i, action |-> <<"request">>,
                   old_status |-> Null, new_status |-> Null, notes |-> Null,
                   performed_by |-> caller]
       IN IF LogInsertPolicy(caller)
          THEN /\ complaint_logs' = complaint_logs (+) SetToBag({row})
               /\ reply' = [NoReply EXCEPT !.by = caller,
                               !.op = "insert complaint_logs", !.ids = {i}]
          ELSE /\ complaint_logs' = complaint_logs
               /\ reply' = [NoReply EXCEPT !.by = caller,
                               !.op = "insert complaint_logs"]
    /\ UNCHANGED <<exportVars, selectVars, notify, categories, complaints, blobs, notifications, now, form,
                   adminVars, history, complaint_comments, studentView,
                   studentSelected, comments, send>>

\* select * from complaints / complaint_comments / complaint_logs
SelectRequest(caller, table) ==
    /\ reply' =
          IF table = "complaints"
          THEN [NoReply EXCEPT !.by = caller, !.op = "select complaints",
                               !.ids = SelectComplaints(caller)]
          ELSE IF table = "complaint_comments"
          THEN [NoReply EXCEPT !.by = caller,
                               !.op = "select complaint_comments",
                               !.ids = SelectComments(caller)]
          ELSE [NoReply EXCEPT !.by = caller, !.op = "select complaint_logs",
                               !.logs = SelectLogs(caller)]
    /\ UNCHANGED <<exportVars, selectVars, notify, storeVars, now, form, adminVars, history,
                   complaint_comments, studentView, studentSelected,
                   comments, send>>

\* ------------------------------------------------------- send-notification
\* The kinds the handler's switch knows.
NotificationTypes == {"status_change", "priority_change", "admin_comment"}

\* One call of the function: its request, how far the handler is, what
\* its lookups found, the requests made to the e-mail provider (for this
\* call and over all calls), the HTTP status of the response and what
\* sendNotification returned.
IdleNotify ==
    [pc |-> "idle", type |-> "", complaintId |-> 0, key |-> FALSE,
     complaint |-> FALSE, profile |-> FALSE, attempts |-> 0, total |-> 0,
     status |-> 0, success |-> FALSE]

\* sendNotification: supabase.functions.invoke("send-notification").
invoke(type, complaintId) ==
    /\ notify.pc = "idle"
    /\ sendNotification(type, complaintId)
    /\ notify' = [IdleNotify EXCEPT !.pc = "handler", !.type = type,
                                    !.complaintId = complaintId,
                                    !.total = notify.total]
    /\ UNCHANGED <<exportVars, selectVars, commentVars, categories, complaints, complaint_logs,
                   blobs, now, form, adminVars, history>>

\* The handler up to its request to the provider: the API key, the
\* complaint (read with the service key), the owner's profile, the switch
\* on the type.  A thrown error is answered with 500.
handler(keyConfigured, thrown, complaintError, profileFound) ==
    /\ notify.pc = "handler"
    /\ LET found == ~complaintError /\ notify.complaintId \in 1..Len(complaints)
           answer(st) == [notify EXCEPT !.pc = "respond", !.status = st,
                                        !.key = keyConfigured,
                                        !.complaint = keyConfigured /\ ~thrown /\ found,
                                        !.profile = keyConfigured /\ ~thrown /\ found
                                                    /\ profileFound]
       IN notify' =
            IF ~keyConfigured THEN answer(500)
            ELSE IF thrown THEN answer(500)
            ELSE IF ~found THEN answer(404)
            ELSE IF ~profileFound THEN answer(404)
            ELSE IF notify.type \notin NotificationTypes THEN answer(400)
            ELSE [answer(0) EXCEPT !.pc = "fetch"]
    /\ UNCHANGED <<exportVars, selectVars, commentVars, storeVars, now, form, adminVars, history>>

\* The request to the provider repeated once when it has failed.
fetchResendWithRetry(ok, thrown) ==
    /\ notify.pc = "fetch"
    /\ notify' = [notify EXCEPT
          !.pc = "respond",
          !.attempts = IF ok /\ ~thrown THEN @ + 1 ELSE @ + 2,
          !.total = IF ok /\ ~thrown THEN @ + 1 ELSE @ + 2,
          !.status = IF ok /\ ~thrown THEN 200 ELSE 500]
    /\ UNCHANGED <<exportVars, selectVars, commentVars, storeVars, now, form, adminVars, history>>

\* fetch("https://api.resend.com/emails"): a response that is not ok, or
\* an error thrown by fetch or by emailResponse.json(), is answered with
\* 500.
fetchResend(ok, thrown) ==
    /\ notify.pc = "fetch"
    /\ notify' = [notify EXCEPT
          !.pc = "respond",
          !.attempts = @ + 1,
          !.total = @ + 1,
          !.status = IF ok /\ ~thrown THEN 200 ELSE 500]
    /\ UNCHANGED <<exportVars, selectVars, commentVars, storeVars, now, form, adminVars, history>>

\* sendNotification's return: invoke reports an error for a status
\* outside 2xx.
sendNotificationReturn ==
    /\ notify.pc = "respond"
    /\ notify' = [notify EXCEPT !.pc = "idle", !.success = (notify.status = 200)]
    /\ UNCHANGED <<exportVars, selectVars, commentVars, storeVars, now, form, adminVars, history>>

\* ------------------------------------------------------------- CSV export
\* The text of a report character by character: a character is a double
\* quote, a comma or any other one ("h"); a fixed field such as an id, an
\* enum value or a header name is one character that is neither.
Quote == "\""
Comma == ","
Chars == {"h", Quote, Comma}
StringsUpTo(n) == UNION {[1..k -> Chars] : k \in 0..n}

\* The subject He said "hi".
HeSaidHi == <<"h", Quote, "h", Quote>>

RECURSIVE ReplaceQuotes(_)
RECURSIVE join(_, _)

\* s.replace('"', '""'): only the first double quote is doubled.
ReplaceFirstQuote(s) ==
    IF \E i \in 1..Len(s) : s[i] = Quote
    THEN LET i == CHOOSE i \in 1..Len(s) :
                    s[i] = Quote /\ \A j \in 1..(i - 1) : s[j] # Quote
         IN SubSeq(s, 1, i - 1) \o <<Quote, Quote>> \o SubSeq(s, i + 1, Len(s))
    ELSE s

\* s.replace(/"/g, '""')
ReplaceQuotes(s) ==
    IF s = <<>> THEN <<>>
    ELSE (IF Head(s) = Quote THEN <<Quote, Quote>> ELSE <<Head(s)>>)
         \o ReplaceQuotes(Tail(s))

\* The template `"${(v || '').replace(/"/g, '""')}"`
Quoted(s) == <<Quote>> \o ReplaceQuotes(s) \o <<Quote>>

\* v || '' of a nullable text.
OrEmpty(v) == IF v = Null THEN <<>> ELSE v[1]

\* Date.prototype.toLocaleString(): date and time in the locale of the
\* runtime; en-US writes "1/17/2026, 1:49:46 PM", ja-JP "2026/1/17 13:49:46".
Locales == {"en-US", "ja-JP"}
toLocaleString(locale) ==
    IF locale = "en-US" THEN <<"h", Comma, "h">> ELSE <<"h", "h">>

\* Array.prototype.join
join(fields, sep) ==
    IF fields = <<>> THEN <<>>
    ELSE IF Len(fields) = 1 THEN fields[1]
    ELSE fields[1] \o sep \o join(Tail(fields), sep)

\* A row of the export's query with its category and the owner's profile.
ReportRows ==
    [subject : StringsUpTo(MaxSubjectText) \cup {HeSaidHi},
     category_name : StringsUpTo(MaxNameText) \ {<<>>},
     profile : {Null} \cup {Some([full_name |-> n, email |-> <<"h">>]) :
                                n \in StringsUpTo(MaxNameText)},
     resolved : BOOLEAN,
     admin_response : {Null} \cup {Some(t) : t \in StringsUpTo(MaxNameText) \ {<<>>}}]

Reports ==
    [rows : {<<>>} \cup {<<r>> : r \in ReportRows}, locale : Locales]

NoReport == [rows |-> <<>>, locale |-> "en-US"]
NoCsv == [content |-> Null, columns |-> 0, toast |-> ""]

\* The export of the analytics page: 11 columns.
headers ==
    <<"ID", "Subject", "Category", "Status", "Priority", "Student Name",
      "Student Email", "Created At", "Resolved At", "Resolution Days",
      "Admin Response">>

rows(locale, c) ==
    <<<<"id">>,
      Quoted(c.subject),
      c.category_name,
      <<"status">>,
      <<"priority">>,
      IF c.profile = Null THEN <<>> ELSE c.profile[1].full_name,
      IF c.profile = Null THEN <<>> ELSE c.profile[1].email,
      toLocaleString(locale),
      IF c.resolved THEN toLocaleString(locale) ELSE <<>>,
      IF c.resolved THEN <<"days">> ELSE <<>>,
      Quoted(OrEmpty(c.admin_response))>>

\* The export of AdminReports.tsx: 9 columns.
headersReports ==
    <<"ID", "Subject", "Category", "Status", "Student Name",
      "Student Email", "Created At", "Resolved At", "Admin Response">>

rowsReports(locale, c) ==
    <<<<"id">>,
      Quoted(c.subject),
      c.category_name,
      <<"status">>,
      IF c.profile = Null THEN <<>> ELSE c.profile[1].full_name,
      IF c.profile = Null THEN <<>> ELSE c.profile[1].email,
      toLocaleString(locale),
      IF c.resolved THEN toLocaleString(locale) ELSE <<>>,
      Quoted(OrEmpty(c.admin_response))>>

\* [headers.join(','), ...rows.map(r => r.join(','))]: the lines of
\* csvContent, which joins them with a line feed.
csvContent(hs, rs) ==
    <<join([i \in 1..Len(hs) |-> <<hs[i]>>], <<Comma>>)>>
    \o [k \in 1..Len(rs) |-> join(rs[k], <<Comma>>)]

\* exportToCSV of the analytics page: a query error or an empty result
\* ends with an error toast and no download.
exportToCSV(a, fail) ==
    /\ has_role(a, "admin")
    /\ csv' = IF fail \/ report.rows = <<>>
              THEN [csv EXCEPT !.toast = "error"]
              ELSE [content |-> Some(csvContent(headers,
                        [k \in 1..Len(report.rows) |->
                            rows(report.locale, report.rows[k])])),
                    columns |-> Len(headers), toast |-> "success"]
    /\ UNCHANGED <<report, selectVars, notify, storeVars, now, form, adminVars, history, commentVars>>

\* exportToCSV of AdminReports.tsx.
exportToCSVReports(a, fail) ==
    /\ has_role(a, "admin")
    /\ csv' = IF fail \/ report.rows = <<>>
              THEN [csv EXCEPT !.toast = "error"]
              ELSE [content |-> Some(csvContent(headersReports,
                        [k \in 1..Len(report.rows) |->
                            rowsReports(report.locale, report.rows[k])])),
                    columns |-> Len(headersReports), toast |-> "success"]
    /\ UNCHANGED <<report, selectVars, notify, storeVars, now, form, adminVars, history, commentVars>>

\* ------------------------------------------------------------------ init
\* The state after construction, the report's rows left open.
InitApp ==
    /\ categories = SeedCategories
    /\ complaints = <<>>
    /\ complaint_logs = EmptyBag
    /\ blobs = {}
    /\ notifications = <<>>
    /\ now = 1
    /\ form = [s \in Students |-> IdleForm]
    /\ adminView = [a \in Admins |-> <<>>]
    /\ selectedComplaint = [a \in Admins |-> Null]
    /\ upd = [a \in Admins |-> IdleUpdate]
    /\ bulk = [a \in Admins |-> IdleBulk]
    /\ del = [a \in Admins |-> IdleDelete]
    /\ everResolved = {}
    /\ dirty = {}
    /\ lastSubmit = [by |-> "", categoryId |-> "", subject |-> Text(0, 0),
                     description |-> Text(0, 0)]
    /\ applied = [i \in 1..MaxComplaints |-> 0]
    /\ complaint_comments = <<>>
    /\ studentView = [s \in Students |-> {}]
    /\ studentSelected = [s \in Students |-> Null]
    /\ comments = [u \in Users |-> {}]
    /\ send = [u \in Users |-> IdleSend]
    /\ reply = NoReply
    /\ csv = NoCsv
    /\ notify = IdleNotify
    /\ filters = [a \in Admins |-> NoFilters]
    /\ selectedIds = [a \in Admins |-> {}]
    /\ click = [a \in Admins |-> NoClick]

Init == InitApp /\ report = NoReport

\* Any report of at most one row.
InitExport == InitApp /\ report \in Reports

\* The lengths tried for a text with a minimum: blank, one short of the
\* minimum, and the minimum up to the bound.
Cores(min, max) == {0} \cup ((min - 1)..max)

\* The lengths tried for a text with a minimum and a maximum: those
\* around each of the two.
Around(min, max) == {min - 1, min, max, max + 1}

\* Complaints stored or about to be inserted.
Submitted == Len(complaints) + Cardinality({s \in Students : form[s].pc = "insert"})

\* The submit handler on any form contents.
SubmitStep(max) ==
    \/ \E s \in Students, c \in SeedCategories \cup {""},
          sp \in 0..MaxPad, sc \in Cores(MinSubject, MaxSubject),
          dp \in 0..MaxPad, dc \in Cores(MinDescription, MaxDescription),
          att \in BOOLEAN :
          /\ Submitted < max
          /\ handleSubmit(s, c, Text(sp, sc), Text(dp, dc), att)
    \/ \E s \in Students, fail \in BOOLEAN : InsertComplaint(s, fail)
    \/ \E s \in Students, fail \in BOOLEAN : uploadAttachment(s, fail)
    \/ \E s \in Students, fail \in BOOLEAN : AttachUpdate(s, fail)

\* The submit handler on valid form contents.
ValidSubmitStep(max) ==
    \/ \E s \in Students, c \in SeedCategories, att \in BOOLEAN :
          /\ Submitted < max
          /\ handleSubmit(s, c, Text(0, MinSubject), Text(0, MinDescription), att)
    \/ \E s \in Students, fail \in BOOLEAN : InsertComplaint(s, fail)
    \/ \E s \in Students, fail \in BOOLEAN : uploadAttachment(s, fail)
    \/ \E s \in Students, fail \in BOOLEAN : AttachUpdate(s, fail)

\* Submissions of both students, answered by the store, with or without
\* an attachment.
OwnerSubmitStep(max) ==
    \/ \E s \in Students, att \in BOOLEAN :
          /\ Submitted < max
          /\ handleSubmit(s, "Academic", Text(0, MinSubject),
                          Text(0, MinDescription), att)
    \/ \E s \in Students : InsertComplaint(s, FALSE)
    \/ \E s \in Students : uploadAttachment(s, FALSE)
    \/ \E s \in Students : AttachUpdate(s, FALSE)

\* Plain submissions of the students S, answered by the store.
PlainOwnerSubmitStep(S, max) ==
    \/ \E s \in S :
          /\ Submitted < max
          /\ handleSubmit(s, "Academic", Text(0, MinSubject),
                          Text(0, MinDescription), FALSE)
    \/ \E s \in S : InsertComplaint(s, FALSE)

\* A plain submission: one student, a valid form without attachment.
PlainSubmitStep(max) ==
    \/ /\ Submitted < max
       /\ handleSubmit("s1", "Academic", Text(0, MinSubject),
                       Text(0, MinDescription), FALSE)
    \/ InsertComplaint("s1", FALSE)

CategoryStep(A) ==
    \/ \E a \in A, c \in SeedCategories : handleDelete(a, c)
    \/ \E a \in A, fail \in BOOLEAN : DeleteCount(a, fail)
    \/ \E a \in A, fail \in BOOLEAN : DeleteCategory(a, fail)

\* The view is mounted (and fetches) while the admin has no dialog open and
\* no request in flight; an admin opens a dialog only while no bulk update
\* of theirs is in flight.
ViewStep(A) ==
    \/ \E a \in A :
          /\ selectedComplaint[a] = Null
          /\ ~upd[a].updating /\ ~bulk[a].bulkUpdating
          /\ fetchComplaints(a)
    \/ \E a \in A, i \in 1..MaxComplaints :
          ~bulk[a].bulkUpdating /\ openComplaint(a, i)
    \/ \E a \in A : closeComplaint(a)

SingleStep(A) ==
    \/ \E a \in A, st \in complaint_status, pr \in PriorityChoices,
          rp \in 0..MaxPad, rc \in 0..MaxResponse :
          /\ now <= MaxClock
          /\ handleUpdateComplaint(a, st, pr, Text(rp, rc))
    \/ \E a \in A, fail \in BOOLEAN : ApplyUpdate(a, fail)
    \/ \E a \in A, fail \in BOOLEAN : ApplyLog(a, fail)

\* Saves of the dialog with a choice of status and of priority together
\* with a response text: the k-th priority with a response of k-1
\* characters.
SaveStep(A) ==
    \/ \E a \in A, st \in complaint_status, k \in 1..MaxSaveChoices :
          /\ now <= MaxClock
          /\ handleUpdateComplaint(a, st, PriorityOrder[k], Text(0, k - 1))
    \/ \E a \in A, fail \in BOOLEAN : ApplyUpdate(a, fail)
    \/ \E a \in A, fail \in BOOLEAN : ApplyLog(a, fail)

\* Saves of the dialog with the status and the response that
\* openComplaint has prefilled and a choice of priority.
PrioritySaveStep(A) ==
    \/ \E a \in A, k \in 1..MaxSaveChoices :
          /\ now <= MaxClock
          /\ selectedComplaint[a] # Null
          /\ LET sel == selectedComplaint[a][1]
             IN handleUpdateComplaint(a, sel.status, PriorityOrder[k],
                   IF sel.admin_response = Null THEN Text(0, 0)
                   ELSE sel.admin_response[1])
    \/ \E a \in A, fail \in BOOLEAN : ApplyUpdate(a, fail)
    \/ \E a \in A, fail \in BOOLEAN : ApplyLog(a, fail)

BulkStep(A) ==
    \/ \E a \in A, ids \in SUBSET (1..MaxComplaints),
          st \in complaint_status \cup {""}, pr \in PriorityChoices \cup {""} :
          /\ now <= MaxClock
          /\ handleBulkUpdate(a, ids, st, pr)
    \/ \E a \in A, fail \in BOOLEAN : ApplyBulkUpdate(a, fail)
    \/ \E a \in A, fail \in BOOLEAN : ApplyBulkLog(a, fail)

\* The admin list with its filters, checkboxes and bulk bar: Apply sends
\* the ticked ids, and the bar is shown while any id is ticked.
SelectStep(A) ==
    \/ \E a \in A :
          /\ selectedComplaint[a] = Null
          /\ ~upd[a].updating /\ ~bulk[a].bulkUpdating
          /\ adminView[a] # complaints
          /\ fetchComplaints(a)
    \/ \E a \in A, q \in {"", "s1"}, st \in {"all", "resolved"},
          pr \in {"all"} \cup PriorityChoices :
          setFilters(a, [searchQuery |-> q, statusFilter |-> st,
                         categoryFilter |-> "all", priorityFilter |-> pr])
    \/ \E a \in A, id \in 1..MaxComplaints : toggleSelection(a, id)
    \/ \E a \in A : toggleSelectAll(a)
    \/ \E a \in A, st \in {"", "resolved"}, pr \in {""} \cup PriorityChoices :
          /\ now <= MaxClock
          /\ handleBulkUpdate(a, selectedIds[a], st, pr)
    \/ \E a \in A, fail \in BOOLEAN : ApplyBulkUpdate(a, fail)
    \/ \E a \in A, fail \in BOOLEAN : ApplyBulkLog(a, fail)

\* The student's list and dialog.
StudentViewStep(S) ==
    \/ \E s \in S : studentSelected[s] = Null /\ studentFetchComplaints(s)
    \/ \E s \in S, i \in 1..MaxComplaints : studentOpenComplaint(s, i)
    \/ \E s \in S : ~send[s].sendingComment /\ studentCloseComplaint(s)

\* Comments sent with the send button, which is disabled while a comment
\* of the same dialog is in flight.
AdminCommentStep(A) ==
    \/ \E a \in A, c \in 0..1 :
          /\ ~send[a].sendingComment
          /\ Len(complaint_comments) < MaxComments
          /\ handleSendComment(a, Text(0, c))
    \/ \E a \in A, fail \in BOOLEAN : ApplyComment(a, fail)

StudentCommentStep(S) ==
    \/ \E s \in S, c \in 0..1 :
          /\ ~send[s].sendingComment
          /\ Len(complaint_comments) < MaxComments
          /\ studentHandleSendComment(s, Text(0, c))
    \/ \E s \in S, fail \in BOOLEAN : ApplyComment(s, fail)

\* Comments sent from the input of the dialog: the send button is
\* disabled while sendingComment or on an empty text, the Enter key of the
\* input calls the handler whenever it is pressed.  The text stays in the
\* input until an insert succeeds, so a press during a request sends the
\* text of that request.
EnterStep(A, S) ==
    \/ \E a \in A, c \in 0..1 :
          /\ send[a].pending = 0
          /\ Len(complaint_comments) < MaxComments
          /\ handleSendComment(a, Text(0, c))
    \/ \E a \in A :
          /\ send[a].pending = 1 /\ send[a].sendingComment
          /\ handleSendComment(a, send[a].content)
    \/ \E s \in S, c \in 0..1 :
          /\ send[s].pending = 0
          /\ Len(complaint_comments) < MaxComments
          /\ studentHandleSendComment(s, Text(0, c))
    \/ \E s \in S :
          /\ send[s].pending = 1 /\ send[s].sendingComment
          /\ studentHandleSendComment(s, send[s].content)
    \/ \E u \in A \cup S, fail \in BOOLEAN : ApplyComment(u, fail)

\* Write requests of the users U sent to the store directly: on
\* complaints, on comments (in the caller's name or in an admin's) and on
\* logs.
UpdateRequestStep(U) ==
    \E u \in U, i \in 1..MaxComplaints :
        UpdateRequest(u, i, "resolved", "critical")

CommentRequestStep(U) ==
    \/ \E u \in U, i \in 1..MaxComplaints, f \in BOOLEAN :
          \E w \in {u, "a1"} :
          /\ Len(complaint_comments) < MaxComments
          /\ InsertCommentRequest(u, i, w, f)
    \/ \E u \in U, k \in 1..MaxComments : UpdateCommentRequest(u, k)
    \/ \E u \in U, k \in 1..MaxComments : DeleteCommentRequest(u, k)

LogRequestStep(U) ==
    \E u \in U, i \in 1..MaxComplaints : InsertLogRequest(u, i)

\* Read requests of the users U sent to the store directly.
ReadStep(U) ==
    \E u \in U, t \in {"complaints", "complaint_comments", "complaint_logs"} :
        SelectRequest(u, t)

\* The lifecycle of one complaint under two admins.
Next ==
    \/ PlainSubmitStep(MaxRaceComplaints)
    \/ ViewStep(Admins)
    \/ SingleStep(Admins)
    \/ BulkStep(Admins)

Spec == Init /\ [][Next]_vars

\* Two admins working on one complaint through the dialog alone.
NextDialog ==
    \/ PlainSubmitStep(MaxRaceComplaints)
    \/ ViewStep(Admins)
    \/ SingleStep(Admins)

SpecDialog == Init /\ [][NextDialog]_vars

\* Bulk updates of several complaints by one admin.
NextBulk ==
    \/ PlainSubmitStep(MaxComplaints)
    \/ ViewStep({"a1"})
    \/ SingleStep({"a1"})
    \/ BulkStep({"a1"})

SpecBulk == Init /\ [][NextBulk]_vars

\* One admin filtering, ticking and bulk-updating the list.
NextSelect ==
    \/ PlainSubmitStep(MaxComplaints)
    \/ SelectStep({"a1"})

SpecSelect == Init /\ [][NextSelect]_vars

\* An admin and a student commenting with the Enter key.
NextEnter ==
    \/ PlainSubmitStep(MaxRaceComplaints)
    \/ ViewStep({"a1"})
    \/ StudentViewStep({"s1"})
    \/ EnterStep({"a1"}, {"s1"})

SpecEnter == Init /\ [][NextEnter]_vars

\* The submit form on any contents.
NextValidate == SubmitStep(MaxComplaints)

SpecValidate == Init /\ [][NextValidate]_vars

\* Valid submissions and category management.
NextSubmit ==
    \/ ValidSubmitStep(MaxComplaints)
    \/ CategoryStep({"a1"})

SpecSubmit == Init /\ [][NextSubmit]_vars

\* One complaint between its owner, another student and one admin: the
\* students submit, comment and send update requests, the admin updates.
NextStudent ==
    \/ OwnerSubmitStep(MaxRaceComplaints)
    \/ ViewStep({"a1"})
    \/ SingleStep({"a1"})
    \/ StudentViewStep(Students)
    \/ StudentCommentStep(Students)
    \/ UpdateRequestStep(Students)

SpecStudent == Init /\ [][NextStudent]_vars

\* Comments of an admin and of a student through their dialogs, and the
\* comment requests of another student.
NextComments ==
    \/ PlainOwnerSubmitStep(Students, MaxComplaints)
    \/ ViewStep({"a1"})
    \/ StudentViewStep({"s1"})
    \/ AdminCommentStep({"a1"})
    \/ StudentCommentStep({"s1"})
    \/ CommentRequestStep({"s2"})

SpecComments == Init /\ [][NextComments]_vars

\* Reads of every user while an admin updates and comments.
NextRead ==
    \/ PlainSubmitStep(MaxRaceComplaints)
    \/ ViewStep({"a1"})
    \/ SingleStep({"a1"})
    \/ AdminCommentStep({"a1"})
    \/ ReadStep(Users)

SpecRead == Init /\ [][NextRead]_vars

\* Updates of one admin and the log requests of the students.
NextLog ==
    \/ PlainSubmitStep(MaxComplaints)
    \/ ViewStep({"a1"})
    \/ SingleStep({"a1"})
    \/ BulkStep({"a1"})
    \/ LogRequestStep(Students)

SpecLog == Init /\ [][NextLog]_vars

\* Two admins saving status, priority and response of one complaint.
NextSave ==
    \/ PlainSubmitStep(MaxRaceComplaints)
    \/ ViewStep(Admins)
    \/ SaveStep(Admins)

SpecSave == Init /\ [][NextSave]_vars

NotifyStep ==
    \/ \E type \in NotificationTypes \cup {"other"}, i \in 1..MaxComplaints :
          Len(notifications) < MaxNotifications /\ invoke(type, i)
    \/ \E k, t, e, f \in BOOLEAN : handler(k, t, e, f)
    \/ \E ok, t \in BOOLEAN : fetchResend(ok, t)
    \/ sendNotificationReturn

\* Calls of the notification function while complaints are submitted.
NextNotify ==
    \/ PlainSubmitStep(MaxRaceComplaints)
    \/ NotifyStep

SpecNotify == Init /\ [][NextNotify]_vars

\* The CSV exports of an admin on any report.
NextExport ==
    \/ \E a \in Admins, fail \in BOOLEAN : exportToCSV(a, fail)
    \/ \E a \in Admins, fail \in BOOLEAN : exportToCSVReports(a, fail)

SpecExport == InitExport /\ [][NextExport]_vars

\* The submit handler on texts around the minimum and the maximum lengths.
LimitSubmitStep(max) ==
    \/ \E s \in Students, c \in SeedCategories,
          sc \in Around(MinSubject, SubjectMaxLength),
          dc \in Around(MinDescription, DescriptionMaxLength) :
          /\ Submitted < max
          /\ handleSubmit(s, c, Text(0, sc), Text(0, dc), FALSE)
    \/ \E s \in Students, fail \in BOOLEAN : InsertComplaint(s, fail)

\* Submissions of texts of any length while categories are managed.
NextLimit ==
    \/ LimitSubmitStep(MaxRaceComplaints)
    \/ CategoryStep({"a1"})

SpecLimit == Init /\ [][NextLimit]_vars

\* A submit with an attachment while one admin saves and applies in bulk.
NextBusy ==
    \/ ValidSubmitStep(MaxRaceComplaints)
    \/ ViewStep({"a1"})
    \/ SingleStep({"a1"})
    \/ BulkStep({"a1"})

SpecBusy == Init /\ [][NextBusy]_vars

\* No handler of the admin's views is in flight.
Quiet(a) ==
    /\ ~upd[a].updating /\ ~bulk[a].bulkUpdating
    /\ ~send[a].sendingComment /\ ~del[a].saving

\* Every handler that sets a busy flag, for one student and one admin who
\* starts one handler at a time; each backend call that was dispatched
\* returns, with or without error.
NextLive ==
    \/ \E att \in BOOLEAN :
          /\ Submitted < MaxRaceComplaints
          /\ handleSubmit("s1", "Academic", Text(0, MinSubject),
                          Text(0, MinDescription), att)
    \/ \E fail \in BOOLEAN : InsertComplaint("s1", fail)
    \/ \E fail \in BOOLEAN : uploadAttachment("s1", fail)
    \/ \E fail \in BOOLEAN : AttachUpdate("s1", fail)
    \/ ViewStep({"a1"})
    \/ /\ now <= MaxLiveClock /\ Quiet("a1")
       /\ handleUpdateComplaint("a1", "resolved", "low", Text(0, 0))
    \/ \E fail \in BOOLEAN : ApplyUpdate("a1", fail)
    \/ \E fail \in BOOLEAN : ApplyLog("a1", fail)
    \/ \E st \in {"", "resolved"} :
          /\ now <= MaxLiveClock /\ Quiet("a1")
          /\ handleBulkUpdate("a1", {1}, st, "")
    \/ \E fail \in BOOLEAN : ApplyBulkUpdate("a1", fail)
    \/ \E fail \in BOOLEAN : ApplyBulkLog("a1", fail)
    \/ \E c \in 0..1 :
          /\ Quiet("a1")
          /\ Len(complaint_comments) < MaxLiveComments
          /\ handleSendComment("a1", Text(0, c))
    \/ \E fail \in BOOLEAN : ApplyComment("a1", fail)
    \/ \E valid \in BOOLEAN, c \in {""} :
          /\ CreatedCategory \notin categories /\ Quiet("a1")
          /\ handleSave("a1", valid, c)
    \/ \E fail \in BOOLEAN : ApplySave("a1", fail)
    \/ \E c \in {"Academic"} : Quiet("a1") /\ handleDelete("a1", c)
    \/ \E fail \in BOOLEAN : DeleteCount("a1", fail)
    \/ \E fail \in BOOLEAN : DeleteCategory("a1", fail)

SpecLive ==
    /\ Init /\ [][NextLive]_vars
    /\ WF_vars(\E fail \in BOOLEAN : InsertComplaint("s1", fail))
    /\ WF_vars(\E fail \in BOOLEAN : uploadAttachment("s1", fail))
    /\ WF_vars(\E fail \in BOOLEAN : AttachUpdate("s1", fail))
    /\ WF_vars(\E fail \in BOOLEAN : ApplyUpdate("a1", fail))
    /\ WF_vars(\E fail \in BOOLEAN : ApplyLog("a1", fail))
    /\ WF_vars(\E fail \in BOOLEAN : ApplyBulkUpdate("a1", fail))
    /\ WF_vars(\E fail \in BOOLEAN : ApplyBulkLog("a1", fail))
    /\ WF_vars(\E fail \in BOOLEAN : ApplyComment("a1", fail))
    /\ WF_vars(\E fail \in BOOLEAN : ApplySave("a1", fail))
    /\ WF_vars(\E fail \in BOOLEAN : DeleteCount("a1", fail))
    /\ WF_vars(\E fail \in BOOLEAN : DeleteCategory("a1", fail))

\* One admin saving status, priority and response, another saving the
\* priority alone, on one complaint.
NextPriority ==
    \/ PlainSubmitStep(MaxRaceComplaints)
    \/ ViewStep(Admins)
    \/ SaveStep({"a1"})
    \/ PrioritySaveStep({"a2"})

SpecPriority == Init /\ [][NextPriority]_vars

\* ------------------------------------------------------------------ claims
LogRows == BagToSet(complaint_logs)
LogsOf(bag, i) == BagCardinality([r \in {x \in BagToSet(bag) : x.complaint_id = i}
                                    |-> bag[r]])

\* C1: in every reachable state, resolved_at of a complaint is non-null if
\* and only if some write has set that complaint's stored status to resolved.
C1_ResolvedAtIffEverResolved ==
    \A i \in 1..Len(complaints) :
        (complaints[i].resolved_at # Null) <=> (i \in everResolved)

\* C1 witness: a complaint that both a single update and a bulk update have
\* set to resolved.
C1_Witness ==
    \E i \in everResolved :
        /\ complaints[i].resolved_at # Null
        /\ \E r \in LogRows : r.complaint_id = i /\ r.action[1] = "single"
                              /\ r.new_status = Some("resolved")
        /\ \E r \in LogRows : r.complaint_id = i /\ r.action[1] = "bulk"
                              /\ r.new_status = Some("resolved")

\* C2: a step after which a complaint's stored status is not resolved (an
\* admin write, single or bulk, whose new status is not resolved) leaves
\* that complaint's resolved_at at its previous value.
C2_NonResolvedWriteKeepsResolvedAt ==
    [][\A i \in 1..Len(complaints) :
          complaints'[i].status # "resolved"
              => complaints'[i].resolved_at = complaints[i].resolved_at]_vars

\* C2 witness: a reopened complaint: status not resolved, resolved_at set.
C2_Witness ==
    \E i \in 1..Len(complaints) :
        /\ complaints[i].status # "resolved"
        /\ complaints[i].resolved_at # Null

\* C3 (as claimed): a single update writes resolved_at if and only if
\* newStatus = resolved and the stored status immediately before the write
\* was not resolved.
C3_StampIffStoredTransition ==
    \A a \in Admins :
        upd[a].pc = "log" =>
            ((upd[a].updates.resolved_at # Null)
                <=> (upd[a].newStatus = "resolved"
                     /\ upd[a].storedBefore # "resolved"))

\* C4 (as claimed): a bulk update to resolved leaves resolved_at of a
\* selected complaint that is already resolved at its earlier value.
C4_BulkKeepsEarlierResolvedAt ==
    [][\A a \in Admins :
          (bulk[a].pc = "update" /\ bulk'[a].pc = "log"
           /\ bulk[a].bulkStatus = "resolved")
          => \A i \in bulk[a].ids :
                complaints[i].status = "resolved"
                    => complaints'[i].resolved_at = complaints[i].resolved_at]_vars

\* C5 (as claimed): a single update with no other writer between opening
\* the dialog and saving, whose log insert is applied, appends exactly one
\* log row, with old_status the stored status before the update, new_status
\* the status after it and performed_by the acting admin.
C5_LogRowDescribesStoredDelta ==
    [][\A a \in Admins :
          (upd[a].pc = "log" /\ upd'[a].pc = "idle" /\ upd[a].clean
           /\ complaint_logs' # complaint_logs)
          => \E r \in BagToSet(complaint_logs') :
                /\ complaint_logs' = complaint_logs (+) SetToBag({r})
                /\ r.complaint_id = upd[a].id
                /\ r.old_status = Some(upd[a].storedBefore)
                /\ r.new_status = Some(upd[a].storedAfter)
                /\ r.performed_by = a]_vars

\* C6 (as claimed): a single update that changes the status makes exactly
\* one status_change call to the notification dispatcher before it ends.
C6_OneStatusChangeNotification ==
    [][\A a \in Admins :
          (upd[a].pc = "log" /\ upd'[a].pc = "idle"
           /\ upd[a].old_status # upd[a].newStatus)
          => Cardinality({k \in 1..Len(notifications') :
                 /\ notifications'[k].type = "status_change"
                 /\ notifications'[k].complaintId = upd[a].id}) >= 1]_vars

\* C7: a bulk update over N selected ids whose log insert is applied
\* appends exactly N log rows, one per selected id, and no step of it
\* calls the notification dispatcher.
C7_BulkLogsOnePerId ==
    [][\A a \in Admins :
          (bulk[a].pc = "log" /\ bulk'[a].pc = "idle")
          => /\ notifications' = notifications
             /\ notifications = <<>>
             /\ \/ complaint_logs' = complaint_logs
                \/ /\ BagCardinality(complaint_logs')
                        = BagCardinality(complaint_logs) + Cardinality(bulk[a].ids)
                   /\ \A i \in 1..Len(complaints) :
                        LogsOf(complaint_logs', i) = LogsOf(complaint_logs, i)
                            + (IF i \in bulk[a].ids THEN 1 ELSE 0)]_vars

\* C7 witness: one bulk update has logged a row for each of two complaints.
C7_Witness ==
    \E r1, r2 \in LogRows :
        /\ r1.action[1] = "bulk" /\ r2.action = r1.action
        /\ r1.performed_by = r2.performed_by
        /\ r1.complaint_id # r2.complaint_id
        /\ BagCardinality(complaint_logs) = 2

\* C8: a submit whose category is unset, whose subject is shorter than 5
\* characters or whose description is shorter than 20 characters writes
\* nothing to the data store, uploads nothing, and leaves the form idle and
\* not loading, so that no later step of it can write either.
C8_InvalidSubmitWritesNothing ==
    [][(lastSubmit' # lastSubmit
        /\ \/ lastSubmit'.categoryId = ""
           \/ Length(lastSubmit'.subject) < MinSubject
           \/ Length(lastSubmit'.description) < MinDescription)
       => /\ complaints' = complaints
          /\ blobs' = blobs
          /\ complaint_logs' = complaint_logs
          /\ ~form'[lastSubmit'.by].loading
          /\ form'[lastSubmit'.by].pc = "idle"]_vars

\* C8 witness: a stored complaint exists, and the latest submit, with a
\* category and a non-blank subject shorter than 5 characters, was rejected.
C8_Witness ==
    /\ lastSubmit.by \in Students
    /\ lastSubmit.categoryId # ""
    /\ ~IsEmpty(Trim(lastSubmit.subject))
    /\ Length(lastSubmit.subject) < MinSubject
    /\ Length(lastSubmit.description) >= MinDescription
    /\ form[lastSubmit.by].toast = "validation"
    /\ Len(complaints) = 1

\* C9: every complaint created by a valid submit is stored with status
\* submitted, priority medium, resolved_at null, admin_response null and
\* the submitting user as owner.
C9_CreatedWithDefaults ==
    [][\A s \in Students :
          (form[s].pc = "insert" /\ form'[s].pc # "insert"
           /\ form'[s].toast # "error")
          => /\ Len(complaints') = Len(complaints) + 1
             /\ SubSeq(complaints', 1, Len(complaints)) = complaints
             /\ LET row == complaints'[Len(complaints')]
                IN /\ row.status = "submitted"
                   /\ row.priority = "medium"
                   /\ row.resolved_at = Null
                   /\ row.admin_response = Null
                   /\ row.user_id = s
                   /\ row.category_id = form[s].categoryId]_vars

\* C9 witness: both students have created a complaint.
C9_Witness ==
    /\ Len(complaints) = 2
    /\ complaints[1].user_id # complaints[2].user_id
    /\ \A s \in Students : form[s].toast = "success"

\* C10 (as claimed): a run of handleDelete whose calls were all answered
\* ends with a conflict report and nothing deleted when a complaint has
\* category_id = c, and with c deleted when no complaint references it.
C10_ConflictIffReferenced ==
    [][\A a \in Admins :
          (del[a].pc # "idle" /\ del'[a].pc = "idle" /\ ~del'[a].failed)
          => LET c == del[a].category
             IN IF \E i \in 1..Len(complaints) : complaints[i].category_id = c
                THEN categories' = categories /\ del'[a].toast = "conflict"
                ELSE c \notin categories']_vars

\* C10 (amended): no category is deleted while a complaint references it;
\* the conflict is reported when the count query finds a referencing
\* complaint; a delete reached although a complaint references c ends with
\* the store's error; a delete of an unreferenced c, answered, removes c.
C10_DeleteGuardedByCountAndKey ==
    [][/\ \A c \in categories \ categories' :
             ~\E i \in 1..Len(complaints) : complaints[i].category_id = c
       /\ \A a \in Admins :
             /\ (del[a].pc = "count" /\ del'[a].count # Null
                 /\ del'[a].count[1] > 0)
                => /\ del'[a].pc = "idle"
                   /\ del'[a].toast = "conflict"
                   /\ categories' = categories
             /\ (del[a].pc = "delete" /\ del'[a].pc = "idle")
                => LET c == del[a].category
                   IN IF \E i \in 1..Len(complaints) :
                             complaints[i].category_id = c
                      THEN categories' = categories /\ del'[a].toast = "error"
                      ELSE \/ del'[a].failed /\ del'[a].toast = "error"
                           \/ c \notin categories' /\ del'[a].toast = "deleted"]_vars

\* C10 witness: one category has been deleted and the delete of the other,
\* which a complaint references, has been refused with the conflict report.
C10_Witness ==
    \E a \in Admins :
        /\ del[a].toast = "conflict"
        /\ del[a].count # Null
        /\ del[a].category \in categories
        /\ \E i \in 1..Len(complaints) : complaints[i].category_id = del[a].category
        /\ categories # SeedCategories

\* C11: in every reachable state every complaint's category_id refers to
\* an existing category, however a student's submit interleaves with the
\* count query and the delete of an admin's handleDelete.
C11_CategoryOfComplaintExists ==
    \A i \in 1..Len(complaints) : complaints[i].category_id \in categories

\* C11 witness: a complaint was stored between the count query and the
\* delete of its category, and the delete, answered by the store, was
\* refused.
C11_Witness ==
    \E a \in Admins :
        /\ del[a].pc = "idle" /\ del[a].toast = "error" /\ ~del[a].failed
        /\ \E i \in 1..Len(complaints) :
              complaints[i].category_id = del[a].category
        /\ categories # SeedCategories

\* C12: a step in which no admin's update is applied (every step of a
\* caller without the admin role: submit, attachment write-back, comment,
\* update request) leaves status, priority, admin_response and resolved_at
\* of every complaint as they were, and removes no complaint.
C12_OnlyAdminsChangeComplaintFields ==
    [][(upd' = upd /\ bulk' = bulk)
       => /\ Len(complaints') >= Len(complaints)
          /\ \A i \in 1..Len(complaints) :
                /\ complaints'[i].status = complaints[i].status
                /\ complaints'[i].priority = complaints[i].priority
                /\ complaints'[i].admin_response = complaints[i].admin_response
                /\ complaints'[i].resolved_at = complaints[i].resolved_at]_vars

\* C12 witness: on a complaint that an admin has resolved, the owner has
\* uploaded an attachment and stored a comment, and the latest request, an
\* update of the complaint sent by a student, affected no row.
C12_Witness ==
    /\ reply.by \in Students /\ reply.op = "update complaints"
    /\ reply.ids = {}
    /\ \E i \in 1..Len(complaints) :
          /\ complaints[i].status = "resolved"
          /\ \E b \in blobs : b[1] = complaints[i].user_id /\ b[2] = i
          /\ \E k \in 1..Len(complaint_comments) :
                /\ complaint_comments[k].complaint_id = i
                /\ complaint_comments[k].by = complaints[i].user_id

\* C13: a read of complaints, comments or logs by a caller without the
\* admin role returns only rows of complaints the caller owns; the same
\* read by a caller with the admin role returns every row.
C13_ReadsReturnOwnRows ==
    [][(reply' # reply /\ reply'.op \in {"select complaints",
                                          "select complaint_comments",
                                          "select complaint_logs"})
       => LET r == reply'
          IN IF has_role(r.by, "admin")
             THEN /\ r.op = "select complaints"
                        => r.ids = 1..Len(complaints)
                  /\ r.op = "select complaint_comments"
                        => r.ids = 1..Len(complaint_comments)
                  /\ r.op = "select complaint_logs"
                        => r.logs = BagToSet(complaint_logs)
             ELSE /\ r.op = "select complaints"
                        => \A i \in r.ids : complaints[i].user_id = r.by
                  /\ r.op = "select complaint_comments"
                        => \A k \in r.ids :
                              complaints[complaint_comments[k].complaint_id].user_id
                                  = r.by
                  /\ r.op = "select complaint_logs"
                        => \A row \in r.logs :
                              complaints[row.complaint_id].user_id = r.by]_vars

\* C13 witness: while log rows and comments of another student's complaint
\* are stored, a student has read the logs and received none.
C13_Witness ==
    /\ reply.by \in Students
    /\ reply.op = "select complaint_logs"
    /\ reply.logs = {}
    /\ complaint_logs # EmptyBag
    /\ complaint_comments # <<>>
    /\ \A i \in 1..Len(complaints) : complaints[i].user_id # reply.by

C15_AttachmentPathStored ==
    [][\A s \in Students :
          (form[s].pc = "attach" /\ form'[s].pc = "idle")
          => /\ complaints'[form[s].complaintId].attachment_url # Null
             /\ complaints'[form[s].complaintId].attachment_url = form[s].path]_vars

\* C16: an upload is attempted only for a complaint row that the insert
\* of the same submit has stored; when the upload fails, the row stays
\* stored with a null attachment_url, no row is removed, and the submit
\* ends with the error toast, not the success toast.
C16_FailedUploadKeepsRow ==
    [][\A s \in Students :
          /\ form'[s].pc = "upload"
                => /\ form'[s].complaintId \in 1..Len(complaints')
                   /\ complaints'[form'[s].complaintId].user_id = s
          /\ (form[s].pc = "upload" /\ form'[s].pc # "upload"
              /\ form'[s].pc # "attach")
                => /\ form'[s].pc = "idle" /\ ~form'[s].loading
                   /\ form'[s].toast = "error"
                   /\ complaints' = complaints
                   /\ blobs' = blobs
                   /\ complaints'[form[s].complaintId].attachment_url = Null]_vars

\* C16 witness: a submit has ended with the error toast after its
\* complaint was stored: the row is there, without attachment and without
\* an uploaded object.
C16_Witness ==
    \E s \in Students :
        /\ form[s].pc = "idle" /\ form[s].toast = "error"
        /\ form[s].complaintId \in 1..Len(complaints)
        /\ complaints[form[s].complaintId].user_id = s
        /\ complaints[form[s].complaintId].attachment_url = Null
        /\ ~\E b \in blobs : b[2] = form[s].complaintId

\* C17: a pending save of the dialog can always be applied, whatever other
\* admins have stored since the dialog was opened (nothing is rejected for
\* conflict); every applied save leaves the stored status, priority and
\* admin_response equal to its own values, and nothing else changes them:
\* after two saves from the same snapshot the stored values are those of
\* the save applied last.
C17_LastWriteWins ==
    /\ [](\A a \in Admins :
            upd[a].pc = "update"
            => ENABLED (ApplyUpdate(a, FALSE) /\ upd'[a].pc = "log"))
    /\ [][\A i \in 1..Len(complaints) :
            LET W == {a \in Admins : /\ upd[a].pc = "update"
                                     /\ upd'[a].pc = "log"
                                     /\ upd[a].id = i}
            IN IF W = {}
               THEN /\ complaints'[i].status = complaints[i].status
                    /\ complaints'[i].priority = complaints[i].priority
                    /\ complaints'[i].admin_response = complaints[i].admin_response
               ELSE \E a \in W :
                    /\ complaints'[i].status = upd[a].newStatus
                    /\ complaints'[i].priority = upd[a].newPriority
                    /\ complaints'[i].admin_response = upd[a].notes]_vars

\* C17 witness: both admins have saved different values from dialogs that
\* showed the same row; both saves were applied and logged, and the
\* stored row holds the values of one of them, not of the other.
C17_Witness ==
    \E r1, r2 \in LogRows :
        /\ r1.performed_by = "a1" /\ r2.performed_by = "a2"
        /\ r1.complaint_id = r2.complaint_id
        /\ r1.action[1] = "single" /\ r2.action[1] = "single"
        /\ r1.action[2] = r2.action[2] /\ r1.action[4] = r2.action[4]
        /\ r1.action[3] # r2.action[3] /\ r1.action[5] # r2.action[5]
        /\ r1.notes # r2.notes
        /\ applied[r1.complaint_id] = 2
        /\ complaints[r1.complaint_id].status = r2.action[3]
        /\ complaints[r1.complaint_id].priority = r2.action[5]
        /\ complaints[r1.complaint_id].admin_response = r2.notes

\* C18: the log table grows only in a step of a caller with the admin
\* role, the rows added are performed by that caller, and in the handlers
\* the insert follows the applied write: a failed update (single or bulk)
\* ends the handler with the log unchanged, so the log rows of a complaint
\* never outnumber the admin writes applied to it.
C18_LogOnlyAfterAppliedAdminWrite ==
    /\ [](\A i \in 1..MaxComplaints : LogsOf(complaint_logs, i) <= applied[i])
    /\ [][/\ complaint_logs' # complaint_logs
             => \E a \in Admins :
                  /\ has_role(a, "admin")
                  /\ \/ upd[a].pc = "log" /\ upd'[a].pc = "idle"
                     \/ bulk[a].pc = "log" /\ bulk'[a].pc = "idle"
                  /\ \A r \in BagToSet(complaint_logs') :
                        CopiesIn(r, complaint_logs') > CopiesIn(r, complaint_logs)
                        => /\ r.performed_by = a
                           /\ applied[r.complaint_id] > 0
          /\ \A a \in Admins :
                \/ upd[a].pc = "update" /\ upd'[a].pc = "idle"
                \/ bulk[a].pc = "update" /\ bulk'[a].pc = "idle"
                => /\ complaint_logs' = complaint_logs
                   /\ applied' = applied]_vars

\* C18 witness: an update of one complaint has failed after an earlier one
\* was applied and logged, and a bulk write has been applied whose log
\* insert was lost: fewer log rows than applied writes.
C18_Witness ==
    \E i \in 1..Len(complaints) :
        /\ applied[i] >= 2
        /\ LogsOf(complaint_logs, i) >= 1
        /\ LogsOf(complaint_logs, i) < applied[i]
        /\ \E r \in LogRows : r.complaint_id = i /\ r.action[1] = "single"
        /\ reply.op = "insert complaint_logs" /\ reply.by \in Students
        /\ reply.ids = {}

\* The double quotes of s before position i.
QuotesBefore(s, i) == Cardinality({j \in 1..(i - 1) : s[j] = Quote})

\* The CSV field of a text: each character in its place, a double quote
\* followed by a second one, one double quote before and one after.
CsvField(s) ==
    LET n == Len(s) + QuotesBefore(s, Len(s) + 1) + 2
    IN [p \in 1..n |->
          IF p = 1 \/ p = n THEN Quote
          ELSE LET i == CHOOSE i \in 1..Len(s) :
                          \/ p - 1 = i + QuotesBefore(s, i)
                          \/ s[i] = Quote /\ p - 1 = i + QuotesBefore(s, i) + 1
               IN s[i]]

\* The columns a line splits into on the commas outside double quotes.
FieldCount(line) ==
    1 + Cardinality({i \in 1..Len(line) :
                        /\ line[i] = Comma
                        /\ QuotesBefore(line, i) % 2 = 0})

\* C19: in both exports the line of a row carries, after the id, the
\* subject with each double quote doubled inside one pair of double
\* quotes, and ends with the admin response (empty when there is none) in
\* the same form; the subject He said "hi" gives "He said ""hi""".
C19_SubjectAndResponseQuoted ==
    csv.content # Null
    => \A k \in 1..Len(report.rows) :
          LET line == csv.content[1][k + 1]
              subject == CsvField(report.rows[k].subject)
              response == CsvField(OrEmpty(report.rows[k].admin_response))
          IN /\ Len(line) >= Len(subject) + Len(response) + 4
             /\ SubSeq(line, 1, 2) = <<"id", Comma>>
             /\ SubSeq(line, 3, 2 + Len(subject)) = subject
             /\ line[3 + Len(subject)] = Comma
             /\ line[Len(line) - Len(response)] = Comma
             /\ SubSeq(line, Len(line) - Len(response) + 1, Len(line)) = response
             /\ report.rows[k].subject = HeSaidHi
                  => subject = <<Quote, "h", Quote, Quote, "h", Quote, Quote, Quote>>

\* C19 witness: a file was downloaded whose row has the subject
\* He said "hi" and a response holding a double quote.
C19_Witness ==
    /\ csv.content # Null
    /\ Len(report.rows) = 1
    /\ report.rows[1].subject = HeSaidHi
    /\ report.rows[1].admin_response = Some(<<Quote>>)

\* C20 (as claimed): every line of the 11-column export, the header line
\* included, splits on its unquoted commas into exactly 11 columns.
C20_RowsSplitIntoElevenColumns ==
    (csv.content # Null /\ csv.columns = 11)
    => \A k \in 1..Len(csv.content[1]) : FieldCount(csv.content[1][k]) = 11

\* C21: a call of the notification function makes at most one request to
\* the e-mail provider: one when the API key is configured, the complaint
\* and the owner's profile are found and the type is one of the three
\* kinds, none otherwise; a provider error is answered with a failure and
\* the requests made over all calls never outnumber the calls.
C21_AtMostOneSendPerCall ==
    /\ notify.attempts <= 1
    /\ notify.total <= Len(notifications)
    /\ notify.pc \in {"respond", "idle"} /\ notifications # <<>>
         => /\ notify.attempts = 1
                <=> /\ notify.key /\ notify.complaint /\ notify.profile
                    /\ notify.type \in NotificationTypes
            /\ notify.attempts = 0 => notify.status # 200
            /\ notify.pc = "idle" => (notify.success <=> notify.status = 200)

\* C21 witness: a call whose request to the provider failed has returned
\* a failure after one attempt, following a call that sent its mail.
C21_Witness ==
    /\ notify.pc = "idle" /\ notify.attempts = 1 /\ notify.status = 500
    /\ ~notify.success
    /\ Len(notifications) = 2 /\ notify.total = 2

\* C22 (as claimed): every stored complaint has a subject of 5 to 100
\* characters, a description of 20 to 2000 characters and the id of an
\* existing category, whatever texts the submit handler was given.
C22_StoredWithinLimits ==
    \A i \in 1..Len(complaints) :
        /\ Length(complaints[i].subject) >= MinSubject
        /\ Length(complaints[i].subject) <= SubjectMaxLength
        /\ Length(complaints[i].description) >= MinDescription
        /\ Length(complaints[i].description) <= DescriptionMaxLength
        /\ complaints[i].category_id \in categories

\* C23: while the busy flag of a submit, of a save or of a bulk apply is
\* set, no step dispatches a second request of that kind from the same
\* view; a step stores at most one complaint, and only as the insert of
\* a submit in flight, and the log insert of a save adds at most one row.
C23_NoSecondRequestWhileBusy ==
    [][/\ \A s \in Students :
            form[s].loading
            => ~(form'[s].pc = "insert" /\ form[s].pc # "insert")
       /\ \A a \in Admins :
            /\ upd[a].updating
                 => ~(upd'[a].pc = "update"
                      /\ (upd[a].pc # "update" \/ now' # now))
            /\ bulk[a].bulkUpdating
                 => ~(bulk'[a].pc = "update"
                      /\ (bulk[a].pc # "update" \/ now' # now))
            /\ (upd[a].pc = "log" /\ upd'[a].pc = "idle")
                 => BagCardinality(complaint_logs')
                       <= BagCardinality(complaint_logs) + 1
       /\ Len(complaints') <= Len(complaints) + 1
       /\ Len(complaints') > Len(complaints)
            => \E s \in Students : /\ form[s].pc = "insert" /\ form[s].loading
                                    /\ form'[s].pc # "insert"]_vars

\* C23 witness: a submit is in flight after its complaint was stored,
\* and the admin, who has saved once through the dialog, has a bulk apply
\* in flight.
C23_Witness ==
    /\ \E s \in Students : form[s].pc = "upload" /\ form[s].loading
    /\ bulk["a1"].pc = "log" /\ bulk["a1"].bulkUpdating
    /\ \E r \in LogRows : r.action[1] = "single"

\* C24: when every dispatched backend call returns, each busy flag that
\* is set is eventually cleared: loading of the submit form, updating and
\* bulkUpdating of the complaints view, sendingComment of the dialog and
\* saving of the categories view; a handler that returns early leaves its
\* flag cleared.
C24_BusyFlagsCleared ==
    /\ form["s1"].loading ~> ~form["s1"].loading
    /\ upd["a1"].updating ~> ~upd["a1"].updating
    /\ bulk["a1"].bulkUpdating ~> ~bulk["a1"].bulkUpdating
    /\ send["a1"].sendingComment ~> ~send["a1"].sendingComment
    /\ del["a1"].saving ~> ~del["a1"].saving
    /\ [](\A a \in Admins : del[a].pc = "idle" => ~del[a].saving)

\* C24 witness: a delete has ended on a category in use and a save on a
\* refused name, flags cleared, after a save and a bulk apply went through
\* and a comment was stored.
C24_Witness ==
    /\ del["a1"].toast = "conflict" /\ ~del["a1"].saving
    /\ CreatedCategory \in categories
    /\ ~form["s1"].loading /\ ~upd["a1"].updating /\ ~bulk["a1"].bulkUpdating
    /\ ~send["a1"].sendingComment
    /\ complaint_comments # <<>>
    /\ \E r \in LogRows : r.action[1] = "single"
    /\ \E r \in LogRows : r.action[1] # "single"

\* C25: whatever status a complaint has in the store, an admin whose
\* dialog is open can save each of the three statuses, and a save or a
\* bulk apply in flight can be applied and then leaves every complaint it
\* names with the status it carries: no move between two statuses is
\* refused, resolved back to submitted included.
C25_AnyStatusToAnyStatus ==
    \A a \in Admins :
        /\ (selectedComplaint[a] # Null /\ ~upd[a].updating /\ now <= MaxClock)
             => \A t \in complaint_status :
                   ENABLED handleUpdateComplaint(a, t, "low", Text(0, 0))
        /\ upd[a].pc = "update"
             => ENABLED (/\ ApplyUpdate(a, FALSE)
                         /\ complaints'[upd[a].id].status = upd[a].newStatus)
        /\ (bulk[a].pc = "update" /\ bulk[a].bulkStatus # "")
             => ENABLED (/\ ApplyBulkUpdate(a, FALSE)
                         /\ \A i \in bulk[a].ids :
                               complaints'[i].status = bulk[a].bulkStatus)

\* C25 witness: one complaint was moved from resolved back to submitted
\* through the dialog, and another, resolved before, is in review after a
\* bulk apply.
C25_Witness ==
    /\ \E r \in LogRows :
          /\ r.action[1] = "single"
          /\ r.old_status = Some("resolved") /\ r.new_status = Some("submitted")
          /\ complaints[r.complaint_id].status = "submitted"
          /\ complaints[r.complaint_id].resolved_at # Null
    /\ \E r \in LogRows :
          /\ r.action[1] = "bulk" /\ r.new_status = Some("in_review")
          /\ r.complaint_id \in everResolved
          /\ complaints[r.complaint_id].status = "in_review"

\* C26 (as claimed): in every interleaving of two admins' openings and
\* saves, the old_status of each log row that a save appends is the
\* status the complaint had in the store immediately before that save's
\* write.
C26_LogOldStatusIsStoredBefore ==
    [][\A a \in Admins :
          (upd[a].pc = "log" /\ upd'[a].pc = "idle")
          => \A r \in BagToSet(complaint_logs') :
                CopiesIn(r, complaint_logs') > CopiesIn(r, complaint_logs)
                => r.old_status = Some(upd[a].storedBefore)]_vars

\* A save in flight whose dialog shows the status and the response it
\* sends and another priority: the admin has changed the priority only.
PriorityOnly(a) ==
    /\ upd[a].pc = "update"
    /\ selectedComplaint[a] # Null
    /\ selectedComplaint[a][1].id = upd[a].id
    /\ upd[a].newStatus = selectedComplaint[a][1].status
    /\ upd[a].notes = selectedComplaint[a][1].admin_response
    /\ upd[a].newPriority # selectedComplaint[a][1].priority

\* C27 (as claimed): a priority-only save that is applied leaves the
\* stored status and admin_response as they were in the store just before
\* it.
C27_PriorityOnlySaveKeepsStored ==
    [][\A a \in Admins :
          (PriorityOnly(a) /\ upd'[a].pc = "log")
          => /\ complaints'[upd[a].id].status = complaints[upd[a].id].status
             /\ complaints'[upd[a].id].admin_response
                   = complaints[upd[a].id].admin_response]_vars

\* C27 (amended): a priority-only save that is applied writes the status
\* and the admin response of its dialog together with the new priority:
\* afterwards the stored status and admin_response are those the dialog
\* showed when it was opened, whatever the store held just before.
C27_PriorityOnlySaveWritesDialog ==
    [][\A a \in Admins :
          (PriorityOnly(a) /\ upd'[a].pc = "log")
          => /\ complaints'[upd[a].id].status = selectedComplaint[a][1].status
             /\ complaints'[upd[a].id].admin_response
                   = selectedComplaint[a][1].admin_response
             /\ complaints'[upd[a].id].priority = upd[a].newPriority]_vars

\* C27 witness: a1 changed the status and the response, a2 saved another
\* priority from a dialog opened on the same row; both were applied and
\* the store holds again the status and response that a2's dialog showed.
C27_Witness ==
    \E r1, r2 \in LogRows :
        /\ r1.performed_by = "a1" /\ r2.performed_by = "a2"
        /\ r1.complaint_id = r2.complaint_id
        /\ r1.action[1] = "single" /\ r2.action[1] = "single"
        /\ r1.action[2] = r2.action[2] /\ r1.action[4] = r2.action[4]
        /\ r1.action[3] # r1.action[2] /\ r1.notes # Null
        /\ r2.action[3] = r2.action[2] /\ r2.action[5] # r2.action[4]
        /\ r2.notes = Null
        /\ applied[r1.complaint_id] = 2
        /\ complaints[r1.complaint_id].status = r2.action[2]
        /\ complaints[r1.complaint_id].admin_response = Null
        /\ complaints[r1.complaint_id].priority = r2.action[5]

\* C28: BulkUpdate writes only to complaints of the displayed filtered
\* list: whenever Apply dispatches its update, after any toggles and filter
\* changes, the ids it sends are a subset of the ids of filteredComplaints.
C28_ApplyUpdatesOnlyDisplayed ==
    [][\A a \in Admins :
          (bulk[a].pc = "idle" /\ bulk'[a].pc = "update")
          => bulk'[a].ids \subseteq filteredComplaints(a)]_vars

\* C29: Select All pressed while some displayed complaint is not selected
\* leaves exactly the displayed ids selected, and it leaves the selection
\* empty only if every displayed complaint was selected before the press.
C29_SelectAllSelectsDisplayed ==
    \A a \in Admins :
        click[a].kind = "all"
        => /\ ~(click[a].filteredComplaints \subseteq click[a].selectedIds)
                 => selectedIds[a] = click[a].filteredComplaints
           /\ selectedIds[a] = {}
                 => click[a].filteredComplaints \subseteq click[a].selectedIds

\* C30: a comment typed once is inserted at most once: while
\* sendingComment is true no further insert is dispatched from the same
\* dialog, by the button or by the Enter key, for admins and students.
C30_NoInsertWhileSending ==
    [][\A u \in Users :
          send[u].sendingComment => send'[u].pending <= send[u].pending]_vars
====
